---- MODULE Spec2Model ----
(***************************************************************************)
(* A model of the degreepath auditor.                                      *)
(*                                                                         *)
(*   Part 1  the limit engine, dp/limit.py: Limit.iterate, LimitSet.check  *)
(*           and the generator LimitSet.limited_transcripts.               *)
(*   Part 2  two runs of the limit engine side by side (determinism).      *)
(*   Part 3  CourseSolution.audit, degreepath/solution/course.py.          *)
(*   Part 4  the generator AreaOfStudy.solutions, degreepath/area.py, and  *)
(*           the claim ledger of the context it hands out.                 *)
(*   Part 5  compare_path_tuples and sort_by_path, dp/base/bases.py.       *)
(*   Part 6  SingleClause.input_size_range, degreepath/clause.py.          *)
(*   Part 7  status and rank of result nodes: Base, BaseQueryRule,         *)
(*           CountResult, RequirementResult.                               *)
(*   Part 8  Requirement.load, Requirement.solutions and                   *)
(*           RequirementSolution.audit, degreepath/requirement.py.         *)
(*   Part 9  AreaOfStudy.load, degreepath/area.py.                         *)
(*   Part 10 the generator run, dp-common.py, and the messages of the      *)
(*           audits it starts.                                             *)
(*   Part 11 audit and baseline of testbed.py: the timeout of an audit.    *)
(*   Part 12 the workers of dp/server/__main__.py: worker, process_queue   *)
(*           and the table public.queue they share.                        *)
(*   Part 13 AreaSolution.audit and the common major requirements,         *)
(*           degreepath/area.py.                                           *)
(*   Part 14 RequirementState, degreepath/requirement.py: the solutions    *)
(*           of a requirement, kept for replay.                            *)
(*   Part 15 main, record, update_progress and make_result_id of           *)
(*           dp-erik.py: the rows of the table result.                     *)
(*                                                                         *)
(* Each part has its own specification; the variables of the other parts   *)
(* are at rest in it.                                                      *)
(***************************************************************************)
EXTENDS Integers, Sequences, FiniteSets, TLC

VARIABLES
    courses,            \* limited_transcripts: the argument `courses`, a tuple
    limits,             \* LimitSet.limits, a tuple of Limit
    forced_clbids,      \* limited_transcripts: the argument `forced_clbids`
    pc,                 \* position of the generator limited_transcripts
    product,            \* these_items of the tuples lazy_product has yet to yield
    emitted_solutions,  \* limited_transcripts: the local set emitted_solutions
    out,                \* the tuples yielded so far, in order
    coursesB,           \* second run: its `courses`, the same set in its own order
    productB,           \* second run: what its lazy_product has yet to yield
    emittedB,           \* second run: its emitted_solutions
    outB,               \* second run: the tuples it yielded so far
    cs_transcript,      \* RequirementContext.transcript of the course audit
    cs_rules,           \* the course each CourseSolution of the solution names
    cs_multicountable,  \* the courses the multi-count policy lets count twice
    cs_results,         \* the CourseResult of each CourseSolution audited so far
    ar_solutions,       \* per limited transcript, how many solutions the root rule has
    ar_pc,              \* position of the generator AreaOfStudy.solutions
    ar_at,              \* <<limited transcript, solution>> the generator last yielded
    ar_ledger,          \* per context (one per limited transcript), its claims
    ar_yielded,         \* the AreaSolutions handed to the consumer
    ar_log,             \* what each construction and each audit found in its ledger
    path_a,             \* compare_path_tuples: the path of its first argument
    path_b,             \* compare_path_tuples: the path of its second argument
    path_cmp,           \* what the comparisons of the two paths returned
    cl_clause,          \* the SingleClause input_size_range is called on
    cl_maximum,         \* input_size_range: the argument `maximum`
    cl_pc,              \* position of the call of input_size_range
    cl_sizes,           \* the integers input_size_range yielded, in order
    nd_node,            \* the result node whose status and rank are asked for
    nd_report,          \* the status, rank and max_rank the node reported
    rq_data,            \* Requirement.load: the argument `data`
    rq_audited_by,      \* Requirement.audited_by
    rq_pc,              \* position of the generator Requirement.solutions
    rq_pulled,          \* how many solutions of the child rule were enumerated
    rq_yielded,         \* the RequirementSolutions yielded so far, in order
    rq_results,         \* the RequirementResult of each yielded solution audited so far
    ld_specification,   \* AreaOfStudy.load: the argument `specification`
    ld_outcome,         \* what AreaOfStudy.load returned or raised
    rn_args,            \* run: the argument `args` and the keyword transcript_only
    rn_pc,              \* position of the generator run
    rn_student,         \* index in args.student_files of the loop's student_file
    rn_area,            \* index in args.area_files of the loop's area_file
    rn_audit,           \* position of the generator audit that run delegates to
    rn_messages,        \* the messages run has yielded, in order
    tb_timeout,         \* testbed audit: the argument `timeout`, <<>> for None
    tb_clock,           \* time.perf_counter() - start_time, in whole seconds
    tb_pc,              \* position of testbed audit and of baseline's collecting loop
    tb_received,        \* the messages the loop of audit took from run, with their times
    tb_outcome,         \* what testbed audit returned or raised
    tb_tables,          \* the tables of the database that hold a row of this audit
    q_table,            \* public.queue: the state of each row
    q_held,             \* the row each worker's open transaction has deleted, 0 for none
    q_pc,               \* position of each worker
    q_listening,        \* whether each worker's connection has executed LISTEN
    q_notifies,         \* the notifications delivered to each connection and not yet popped
    q_audits,           \* for each row, the calls of `single` on it: worker and outcome
    as_area,            \* AreaSolution.audit: kind and degree of the area
    as_result,          \* the result of self.solution.audit(ctx=self.context)
    as_pc,              \* position of AreaSolution.audit
    as_outcome,         \* what AreaSolution.audit raised, or the root of the AreaResult
    rs_source,          \* RequirementState: the elements of the argument `iterable`
    rs_iter,            \* how many elements have been taken from self.iter
    rs_done,            \* self.done
    rs_vals,            \* self.vals
    rs_iterators,       \* the iterators iter_solutions has returned: stage, index, yielded
    er_files,           \* whether the student file and the area file can be opened
    er_run,             \* position of the generator run that main iterates
    er_pc,              \* position of main
    er_result_id,       \* main: the local result_id, 0 for None
    er_result,          \* the table result: in_progress and iterations of each row, by id
    er_created          \* the ids of the rows this call of main inserted

limitVars == <<courses, limits, forced_clbids, pc, product, emitted_solutions, out>>
detVars == <<coursesB, productB, emittedB, outB>>
csVars == <<cs_transcript, cs_rules, cs_multicountable, cs_results>>
arVars == <<ar_solutions, ar_pc, ar_at, ar_ledger, ar_yielded, ar_log>>
pathVars == <<path_a, path_b, path_cmp>>
clauseVars == <<cl_clause, cl_maximum, cl_pc, cl_sizes>>
nodeVars == <<nd_node, nd_report>>
rqVars == <<rq_data, rq_audited_by, rq_pc, rq_pulled, rq_yielded, rq_results>>
ldVars == <<ld_specification, ld_outcome>>
runVars == <<rn_args, rn_pc, rn_student, rn_area, rn_audit, rn_messages>>
tbVars == <<tb_timeout, tb_clock, tb_pc, tb_received, tb_outcome, tb_tables>>
queueVars == <<q_table, q_held, q_pc, q_listening, q_notifies, q_audits>>
areaSolutionVars == <<as_area, as_result, as_pc, as_outcome>>
stateVars == <<rs_source, rs_iter, rs_done, rs_vals, rs_iterators>>
erikVars == <<er_files, er_run, er_pc, er_result_id, er_result, er_created>>
driverVars == <<runVars, tbVars, queueVars, areaSolutionVars, stateVars, erikVars>>
midVars == <<pathVars, clauseVars, nodeVars, rqVars, ldVars>>
laterVars == <<midVars, driverVars>>
earlierVars == <<limitVars, detVars, csVars, arVars>>
vars == <<earlierVars, laterVars>>

\* What the limit engine leaves alone.
beyondLimit == <<csVars, arVars, laterVars>>

(***************************************************************************)
(* Bounds of the model.                                                    *)
(***************************************************************************)
MaxLimits == 2      \* a LimitSet holds at most this many limits
MaxAtMost == 1      \* at_most ranges over 0..MaxAtMost
MaxEntries == 2     \* the transcript of the course audit holds at most this many entries
MaxRules == 2       \* a solution holds at most this many course rules
MaxLimited == 2     \* AreaOfStudy.solutions sees at most this many limited transcripts
MaxSolutions == 2   \* the root rule has at most this many solutions per limited transcript
MaxPathLen == 2     \* a path holds at most this many segments after its root '$'
MaxExpected == 3    \* the expected value of a clause ranges over 0..MaxExpected
MaxMaximum == 3     \* the argument `maximum` ranges over 0..MaxMaximum
MaxAssertions == 2  \* a query node holds at most this many assertions
MaxChildRank == 2   \* the rank and max_rank of a child result range over 0..MaxChildRank
MaxChildren == 2    \* a Count result holds at most this many children
MaxChildSolutions == 2  \* the child rule of a requirement has at most this many solutions
MaxEmphases == 1    \* a specification holds at most this many emphases
MaxFiles == 3       \* args names at most this many student and area files together
MaxTimeout == 2     \* a timeout is None or 0..MaxTimeout seconds
MaxClock == 3       \* the clock of an audit is followed up to this many seconds
MaxMessages == 4    \* run yields at most this many messages to testbed audit
MaxWorkers == 2     \* main starts this many workers
MaxRows == 2        \* at most this many rows are ever inserted into public.queue
MaxItems == 2       \* the root of a solution holds at most this many items
MaxElements == 3    \* the iterable of a RequirementState holds at most this many elements
MaxIterators == 2   \* iter_solutions is called at most this many times
MaxEarlierResults == 2   \* the table result holds at most this many rows of earlier audits
MaxProgress == 2         \* an audit yields at most this many ProgressMsg

(***************************************************************************)
(* The transcript entries the inputs are drawn from, by clbid.  A course   *)
(* is written as its clbid; Catalog gives its other attributes.  Credits   *)
(* are whole numbers; the third course carries no credit.  The (year,      *)
(* term, clbid) order of the courses is the reverse of their clbid order.  *)
(***************************************************************************)
Catalog ==
    << [clbid |-> 1, year |-> 2019, term |-> 1, credits |-> 1,
        subject |-> "ART", attributes |-> {}],
       [clbid |-> 2, year |-> 2018, term |-> 3, credits |-> 2,
        subject |-> "ART", attributes |-> {"elective"}],
       [clbid |-> 3, year |-> 2018, term |-> 1, credits |-> 0,
        subject |-> "CSCI", attributes |-> {"elective"}] >>

Clbids == {Catalog[i].clbid : i \in DOMAIN Catalog}

(***************************************************************************)
(* Generic helpers.                                                        *)
(***************************************************************************)
Range(s) == {s[i] : i \in 1..Len(s)}

\* The sequences that list every element of S exactly once: the orders in
\* which a Python set or frozenset of these elements can be iterated.
Orders(S) ==
    {s \in [1..Cardinality(S) -> S] : \A i, j \in 1..Cardinality(S) : i # j => s[i] # s[j]}

\* Every sequence over S of length at most n.
SeqsUpTo(S, n) == UNION {[1..k -> S] : k \in 0..n}

RECURSIVE SumCredits(_)
\* sum(c.credits for c in seq)
SumCredits(seq) ==
    IF seq = <<>> THEN 0 ELSE Catalog[Head(seq)].credits + SumCredits(Tail(seq))

RECURSIVE Concat(_)
\* The concatenation of a sequence of sequences.
Concat(ss) == IF ss = <<>> THEN <<>> ELSE Head(ss) \o Concat(Tail(ss))

\* CourseInstance.sort_order(): the key (year, term, clbid).
sort_order(c) == <<Catalog[c].year, Catalog[c].term, Catalog[c].clbid>>

\* Python's tuple comparison a < b on two sort_order keys.
KeyLess(a, b) ==
    \/ a[1] < b[1]
    \/ a[1] = b[1] /\ a[2] < b[2]
    \/ a[1] = b[1] /\ a[2] = b[2] /\ a[3] < b[3]

RECURSIVE SortByOrder(_)
\* sorted(S, key=sort_order): the courses of S in ascending sort_order.
SortByOrder(S) ==
    IF S = {} THEN <<>>
    ELSE LET m == CHOOSE x \in S :
                    \A y \in S \ {x} : KeyLess(sort_order(x), sort_order(y))
         IN  <<m>> \o SortByOrder(S \ {m})

\* The where-predicates a limit may carry.
Wheres ==
    { [key |-> "subject", value |-> "ART"],
      [key |-> "attributes", value |-> "elective"] }

\* limit.where.apply(c)
Apply(where, c) ==
    IF where.key = "subject" THEN Catalog[c].subject = where.value
    ELSE where.value \in Catalog[c].attributes

\* class AtMostWhat
AtMostWhat == {"Courses", "Credits"}

\* Limit.message: None (<<>>) or a string.
Messages == {<<>>, <<"a">>}

\* class Limit: its value, which the engine uses as a dictionary key, is that
\* of all four fields.
Limit ==
    [at_most : 0..MaxAtMost, at_most_what : AtMostWhat, where : Wheres, message : Messages]

(***************************************************************************)
(* Limit.iterate and its two branches.                                     *)
(***************************************************************************)
RECURSIVE Combinations(_, _)
\* itertools.combinations(seq, n): the n-element subsequences of seq, in
\* lexicographic order of their positions.
Combinations(seq, n) ==
    IF n = 0 THEN << <<>> >>
    ELSE IF Len(seq) < n THEN <<>>
    ELSE LET withHead == Combinations(Tail(seq), n - 1)
         IN  [i \in 1..Len(withHead) |-> <<Head(seq)>> \o withHead[i]]
             \o Combinations(Tail(seq), n)

\* Limit.iterate_courses: every combination of 0..at_most courses.
iterate_courses(limit, sorted) ==
    Concat([k \in 1..(limit.at_most + 1) |-> Combinations(sorted, k - 1)])

\* Limit.iterate_credits: the whole tuple when it fits under the cap, else
\* every combination whose credits fit.
iterate_credits(limit, sorted) ==
    IF SumCredits(sorted) <= limit.at_most THEN <<sorted>>
    ELSE SelectSeq(Concat([k \in 1..(Len(sorted) + 1) |-> Combinations(sorted, k - 1)]),
                   LAMBDA combo : SumCredits(combo) <= limit.at_most)

\* Limit.iterate: sorts its input, then the branch for the limit's unit.
iterate(limit, match_set) ==
    IF limit.at_most_what = "Courses"
    THEN iterate_courses(limit, SortByOrder(match_set))
    ELSE iterate_credits(limit, SortByOrder(match_set))

(***************************************************************************)
(* LimitSet.check on the courses in the order `order` in which the         *)
(* frozenset handed to it is iterated.  The counters are keyed by the      *)
(* limit's value, so two equal limits of the tuple share one counter.      *)
(***************************************************************************)
RECURSIVE CheckLoop(_, _, _, _, _)
CheckLoop(lims, order, i, j, counters) ==
    IF i > Len(order) THEN TRUE
    ELSE IF j > Len(lims) THEN CheckLoop(lims, order, i + 1, 1, counters)
    ELSE LET c == order[i]
             limit == lims[j]
         IN  IF ~Apply(limit.where, c)
             THEN CheckLoop(lims, order, i, j + 1, counters)
             ELSE IF counters[limit] >= limit.at_most THEN FALSE
             ELSE CheckLoop(lims, order, i, j + 1,
                    [counters EXCEPT ![limit] =
                        IF limit.at_most_what = "Courses" THEN @ + 1 ELSE @ + Catalog[c].credits])

check(lims, order) ==
    CheckLoop(lims, order, 1, 1, [l \in Range(lims) |-> 0])

(***************************************************************************)
(* The set-up of limited_transcripts (steps 0 and 1).                      *)
(***************************************************************************)
\* all_courses = set(courses)
all_courses(cs) == Range(cs)

\* forced_items: the clbids of the courses that were force-inserted.
forced_items(cs, forced) ==
    {Catalog[c].clbid : c \in {x \in all_courses(cs) : Catalog[x].clbid \in forced}}

\* A variant of matched_items that leaves out the `continue` for forced courses.
matched_items_counts_forced(cs, forced, limit) ==
    {c \in Range(cs) : Apply(limit.where, c)}

\* matched_items[limit]: the courses not forced that the limit's where matches.
matched_items(cs, forced, limit) ==
    {c \in Range(cs) : Catalog[c].clbid \notin forced_items(cs, forced) /\ Apply(limit.where, c)}

\* The keys of the dict matched_items in insertion order: the limits that
\* matched a course, each value once, in the order of the tuple.
matched_keys(cs, lims, forced) ==
    LET hit == SelectSeq(lims, LAMBDA l : matched_items(cs, forced, l) # {})
    IN  SelectSeq([i \in 1..Len(hit) |-> [limit |-> hit[i], first |-> \A k \in 1..(i - 1) : hit[k] # hit[i]]],
                  LAMBDA e : e.first)

all_matched_items(cs, lims, forced) ==
    UNION {matched_items(cs, forced, lims[i]) : i \in 1..Len(lims)}

unmatched_items(cs, lims, forced) ==
    all_courses(cs) \ all_matched_items(cs, lims, forced)

\* clause_iterators, each already run to the sequence of tuples it yields.
clause_iterators(cs, lims, forced) ==
    LET keys == matched_keys(cs, lims, forced)
    IN  [i \in 1..Len(keys) |-> iterate(keys[i].limit, matched_items(cs, forced, keys[i].limit))]

(***************************************************************************)
(* lazy_product: the cartesian product of the iterators, the last one      *)
(* varying fastest; of no iterator, the one empty tuple.                   *)
(***************************************************************************)
RECURSIVE ProductSize(_)
ProductSize(iters) ==
    IF iters = <<>> THEN 1 ELSE Len(Head(iters)) * ProductSize(Tail(iters))

RECURSIVE lazy_product(_, _)
\* The tuple number n (from 0) of the product.
lazy_product(iters, n) ==
    IF iters = <<>> THEN <<>>
    ELSE LET rest == ProductSize(Tail(iters))
         IN  <<Head(iters)[(n \div rest) + 1]>> \o lazy_product(Tail(iters), n % rest)

\* these_items of every tuple the product yields, in the order it yields them.
all_these_items(cs, lims, forced) ==
    LET iters == clause_iterators(cs, lims, forced)
    IN  [n \in 1..ProductSize(iters) |-> Range(Concat(lazy_product(iters, n - 1)))]

\* A variant of this_combo that leaves out the unmatched courses.
this_combo_without_unmatched(cs, lims, forced, these_items) ==
    SortByOrder(these_items)

RECURSIVE SortByClbid(_)
SortByClbid(S) ==
    IF S = {} THEN <<>>
    ELSE LET m == CHOOSE x \in S : \A y \in S : Catalog[x].clbid <= Catalog[y].clbid
         IN  <<m>> \o SortByClbid(S \ {m})

\* A variant of this_combo that sorts on the clbid alone.
this_combo_by_clbid(cs, lims, forced, these_items) ==
    SortByClbid(unmatched_items(cs, lims, forced) \cup these_items)

\* this_combo, sorted: the tuple that is yielded for these_items.
this_combo(cs, lims, forced, these_items) ==
    SortByOrder(unmatched_items(cs, lims, forced) \cup these_items)

\* self.check(these_items) can return True, can return False: there is an
\* order of iterating the frozenset in which it does.
CanPass(lims, these_items) == \E order \in Orders(these_items) : check(lims, order)
CanFail(lims, these_items) == \E order \in Orders(these_items) : ~check(lims, order)

(***************************************************************************)
(* Part 1.  The generator LimitSet.limited_transcripts, one action for     *)
(* each way it can move on.                                                *)
(***************************************************************************)
\* The inputs: any tuple of distinct catalog courses, and tuples of limits.
CourseTuples == UNION {Orders(S) : S \in SUBSET Clbids}
\* A message only tells two limits apart that agree in their other fields:
\* the tuples are drawn with a message on a limit only where an earlier limit
\* of the tuple is the same limit without the message.
LimitTuples ==
    { ls \in SeqsUpTo(Limit, MaxLimits) :
        \A i \in DOMAIN ls :
            ls[i].message # <<>> =>
                \E k \in 1..(i - 1) : ls[k] = [ls[i] EXCEPT !.message = <<>>] }
\* forced_clbids: nothing forced, the course both where-predicates match, or
\* that course and another one.
ForcedSets == {{}, {2}, {1, 2}}

DetIdle == coursesB = <<>> /\ productB = <<>> /\ emittedB = {} /\ outB = <<>>

\* The other parts of the model at rest.
CsIdle ==
    cs_transcript = <<>> /\ cs_rules = <<>> /\ cs_multicountable = {} /\ cs_results = <<>>
ArIdle ==
    /\ ar_solutions = <<>> /\ ar_pc = "done" /\ ar_at = <<0, 0>>
    /\ ar_ledger = <<>> /\ ar_yielded = <<>> /\ ar_log = {}
PathIdle == path_a = <<>> /\ path_b = <<>> /\ path_cmp = <<>>

ClauseIdle == cl_clause = <<>> /\ cl_maximum = 0 /\ cl_pc = "idle" /\ cl_sizes = <<>>

NodeIdle == nd_node = <<>> /\ nd_report = <<>>

RqIdle ==
    /\ rq_data = <<>> /\ rq_audited_by = "idle" /\ rq_pc = "idle"
    /\ rq_pulled = 0 /\ rq_yielded = <<>> /\ rq_results = <<>>

LdIdle == ld_specification = <<>> /\ ld_outcome = "idle"

RunIdle ==
    /\ rn_args = <<>> /\ rn_pc = "idle" /\ rn_student = 0 /\ rn_area = 0
    /\ rn_audit = "idle" /\ rn_messages = <<>>
TbIdle ==
    /\ tb_timeout = <<>> /\ tb_clock = 0 /\ tb_pc = "idle" /\ tb_received = <<>>
    /\ tb_outcome = "idle" /\ tb_tables = {}
QueueIdle ==
    /\ q_table = <<>> /\ q_held = <<>> /\ q_pc = <<>> /\ q_listening = <<>>
    /\ q_notifies = <<>> /\ q_audits = <<>>
AreaSolutionIdle ==
    as_area = <<>> /\ as_result = <<>> /\ as_pc = "idle" /\ as_outcome = <<>>
StateIdle ==
    /\ rs_source = <<>> /\ rs_iter = 0 /\ rs_done = FALSE /\ rs_vals = <<>>
    /\ rs_iterators = <<>>
ErikIdle ==
    /\ er_files = <<>> /\ er_run = "idle" /\ er_pc = "idle" /\ er_result_id = 0
    /\ er_result = <<>> /\ er_created = {}
DriverIdle == RunIdle /\ TbIdle /\ QueueIdle /\ AreaSolutionIdle /\ StateIdle /\ ErikIdle
MidIdle == PathIdle /\ ClauseIdle /\ NodeIdle /\ RqIdle /\ LdIdle
LaterIdle == MidIdle /\ DriverIdle

LimitIdle ==
    /\ courses = <<>> /\ limits = <<>> /\ forced_clbids = {} /\ pc = "done"
    /\ product = <<>> /\ emitted_solutions = {} /\ out = <<>>

LimitInit ==
    /\ courses \in CourseTuples
    /\ limits \in LimitTuples
    /\ forced_clbids \in ForcedSets
    /\ pc = "start"
    /\ product = <<>>
    /\ emitted_solutions = {}
    /\ out = <<>>
    /\ DetIdle /\ CsIdle /\ ArIdle /\ LaterIdle

\* A variant of NoLimits that leaves out the `return` after the yield, so that
\* the generator goes on into the product of no iterator.
NoLimitsFallsThrough ==
    /\ pc = "start"
    /\ limits = <<>>
    /\ out' = Append(out, courses)
    /\ product' = all_these_items(courses, limits, forced_clbids)
    /\ pc' = "product"
    /\ UNCHANGED <<courses, limits, forced_clbids, emitted_solutions>>
    /\ UNCHANGED <<detVars, beyondLimit>>

\* `if not self.limits`: the whole input is yielded as it came, and the
\* generator returns.
NoLimits ==
    /\ pc = "start"
    /\ limits = <<>>
    /\ out' = Append(out, courses)
    /\ pc' = "done"
    /\ UNCHANGED <<courses, limits, forced_clbids, product, emitted_solutions>>
    /\ UNCHANGED <<detVars, beyondLimit>>

\* With limits: steps 0 and 1 are computed and the product is opened.
ApplyLimits ==
    /\ pc = "start"
    /\ limits # <<>>
    /\ product' = all_these_items(courses, limits, forced_clbids)
    /\ pc' = "product"
    /\ UNCHANGED <<courses, limits, forced_clbids, emitted_solutions, out>>
    /\ UNCHANGED <<detVars, beyondLimit>>

\* The next tuple of the product fails self.check: `continue`.
Invalid ==
    /\ pc = "product"
    /\ product # <<>>
    /\ CanFail(limits, Head(product))
    /\ product' = Tail(product)
    /\ UNCHANGED <<courses, limits, forced_clbids, pc, emitted_solutions, out>>
    /\ UNCHANGED <<detVars, beyondLimit>>

\* The next tuple passes self.check but its set was emitted before: `continue`.
Duplicate ==
    /\ pc = "product"
    /\ product # <<>>
    /\ CanPass(limits, Head(product))
    /\ Head(product) \in emitted_solutions
    /\ product' = Tail(product)
    /\ UNCHANGED <<courses, limits, forced_clbids, pc, emitted_solutions, out>>
    /\ UNCHANGED <<detVars, beyondLimit>>

\* A variant of Emit that leaves out the test against emitted_solutions.
EmitWithoutDedupe ==
    /\ pc = "product"
    /\ product # <<>>
    /\ CanPass(limits, Head(product))
    /\ emitted_solutions' = emitted_solutions \cup {Head(product)}
    /\ out' = Append(out, this_combo(courses, limits, forced_clbids, Head(product)))
    /\ product' = Tail(product)
    /\ UNCHANGED <<courses, limits, forced_clbids, pc>>
    /\ UNCHANGED <<detVars, beyondLimit>>

\* The next tuple passes self.check and is new: it is recorded, joined with
\* the unmatched courses, sorted and yielded.
Emit ==
    /\ pc = "product"
    /\ product # <<>>
    /\ CanPass(limits, Head(product))
    /\ Head(product) \notin emitted_solutions
    /\ emitted_solutions' = emitted_solutions \cup {Head(product)}
    /\ out' = Append(out, this_combo(courses, limits, forced_clbids, Head(product)))
    /\ product' = Tail(product)
    /\ UNCHANGED <<courses, limits, forced_clbids, pc>>
    /\ UNCHANGED <<detVars, beyondLimit>>

\* The product is exhausted: the generator returns.
Exhausted ==
    /\ pc = "product"
    /\ product = <<>>
    /\ pc' = "done"
    /\ UNCHANGED <<courses, limits, forced_clbids, product, emitted_solutions, out>>
    /\ UNCHANGED <<detVars, beyondLimit>>

LimitNext == NoLimits \/ ApplyLimits \/ Invalid \/ Duplicate \/ Emit \/ Exhausted

SpecLimit == LimitInit /\ [][LimitNext]_vars

(***************************************************************************)
(* Properties of the limit engine (Part 1).                                *)
(***************************************************************************)
\* The courses of S that the limit's where-predicate matches.
Matching(S, limit) == {c \in S : Apply(limit.where, c)}

\* The limit holds of the set S of courses.
Satisfies(S, limit) ==
    IF limit.at_most_what = "Courses"
    THEN Cardinality(Matching(S, limit)) <= limit.at_most
    ELSE SumCredits(SortByOrder(Matching(S, limit))) <= limit.at_most

SatisfiesAll(S) == \A j \in 1..Len(limits) : Satisfies(S, limits[j])

\* The input courses that no limit's where-predicate matches.
Unconstrained == {c \in Range(courses) : \A j \in 1..Len(limits) : ~Apply(limits[j].where, c)}

\* The input courses that were force-inserted.
Forced == {c \in Range(courses) : Catalog[c].clbid \in forced_clbids}

IsSorted(t) ==
    \A i, j \in 1..Len(t) : i < j => KeyLess(sort_order(t[i]), sort_order(t[j]))

\* C1: with no force-inserted course, every emitted transcript satisfies
\* every limit of the set: at most at_most matching courses for a Courses
\* limit, at most at_most credits of matching courses for a Credits limit.
C1_EmittedSatisfyEveryLimit ==
    forced_clbids = {} => \A i \in 1..Len(out) : SatisfiesAll(Range(out[i]))

\* C2: no two transcripts emitted in one call hold the same set of courses.
C2_EmittedDistinctAsSets ==
    \A i, j \in 1..Len(out) : i # j => Range(out[i]) # Range(out[j])

\* C2 witness: the call is over, it emitted several transcripts, and two
\* tuples of the product had the same union, which passed check.
C2_Witness ==
    /\ pc = "done"
    /\ Len(out) >= 2
    /\ LET all == all_these_items(courses, limits, forced_clbids)
       IN  \E n, m \in 1..Len(all) : n # m /\ all[n] = all[m] /\ all[n] \in emitted_solutions

\* C3: completeness.  With U the courses matching no limit, when the call is
\* over every U \cup S that satisfies every limit, S a set of limit-matching
\* courses, has been emitted.
C3_EveryValidSubsetEmitted ==
    (pc = "done" /\ forced_clbids = {}) =>
        \A S \in SUBSET (Range(courses) \ Unconstrained) :
            SatisfiesAll(Unconstrained \cup S) =>
                \E i \in 1..Len(out) : Range(out[i]) = Unconstrained \cup S

\* C4: every emitted transcript contains every input course that matches
\* the where-predicate of no limit.
C4_UnconstrainedAlwaysPresent ==
    \A i \in 1..Len(out) : Unconstrained \subseteq Range(out[i])

\* C4 witness: with limits, a transcript was emitted that drops a course a
\* limit matches and keeps a course that no limit matches.
C4_Witness ==
    /\ limits # <<>>
    /\ Unconstrained # {}
    /\ \E i \in 1..Len(out) :
        /\ Unconstrained \subseteq Range(out[i])
        /\ \E c \in Range(courses) \ Unconstrained : c \notin Range(out[i])

\* C5: a force-inserted course is in every emitted transcript, and it is in
\* none of the sets that are counted against the limits: not in a tuple of
\* the product, hence not in the set handed to check.
C5_ForcedBypassLimits ==
    /\ \A i \in 1..Len(out) : Forced \subseteq Range(out[i])
    /\ \A k \in 1..Len(product) : product[k] \cap Forced = {}
    /\ \A e \in emitted_solutions : e \cap Forced = {}

\* C5 witness: an emitted transcript holds a forced course that a Courses
\* limit matches, and with it more matching courses than the limit's at_most.
C5_Witness ==
    \E i \in 1..Len(out), j \in 1..Len(limits) :
        /\ limits[j].at_most_what = "Courses"
        /\ Matching(Forced, limits[j]) # {}
        /\ Cardinality(Matching(Range(out[i]), limits[j])) > limits[j].at_most
        /\ Cardinality(Matching(Range(out[i]) \ Forced, limits[j])) <= limits[j].at_most

\* C6: without limits exactly one transcript is emitted, and it holds exactly
\* the courses given, whatever forced_clbids is.
C6_NoLimitsWholeTranscript ==
    limits = <<>> =>
        /\ pc = "start" => out = <<>>
        /\ pc # "start" =>
            /\ Len(out) = 1
            /\ Len(out[1]) = Len(courses)
            /\ Range(out[1]) = Range(courses)

\* C6 witness: a call without limits, with a forced course in the input, is over.
C6_Witness ==
    /\ limits = <<>>
    /\ pc = "done"
    /\ Forced # {}
    /\ Len(courses) >= 2
    /\ Len(out) = 1

\* C7 as stated: every emitted tuple is in ascending sort_order, with or
\* without limits.
C7_AlwaysSorted ==
    \A i \in 1..Len(out) : IsSorted(out[i])

\* C7 amended: with at least one limit every emitted tuple is in ascending
\* sort_order, for every order of the input; without limits the one tuple
\* emitted lists the courses in the order of the input.
C7_SortedWithLimits ==
    /\ limits # <<>> => \A i \in 1..Len(out) : IsSorted(out[i])
    /\ limits = <<>> => \A i \in 1..Len(out) : out[i] = courses

\* C7 witness: with limits, an input that is not in sort_order, and an
\* emitted tuple of three courses, matched and unmatched ones among them.
C7_Witness ==
    /\ limits # <<>>
    /\ ~IsSorted(courses)
    /\ \E i \in 1..Len(out) :
        /\ Len(out[i]) = 3
        /\ Range(out[i]) \cap Unconstrained # {}
        /\ Range(out[i]) \ Unconstrained # {}

(***************************************************************************)
(* Part 2.  Two runs of limited_transcripts on the same set of courses and *)
(* the same limits.  Each run is handed the courses in its own order and   *)
(* iterates its frozensets in its own order; the runs advance together,    *)
(* one tuple of the product at a time.                                     *)
(***************************************************************************)
\* What one pass of the loop body can leave behind, for a run whose product,
\* emitted_solutions and output are prod, emitted and o.
StepOutcomes(cs, lims, forced, prod, emitted, o) ==
    IF prod = <<>> THEN {[product |-> prod, emitted |-> emitted, out |-> o]}
    ELSE {[product |-> Tail(prod), emitted |-> emitted, out |-> o] :
            x \in {y \in {Head(prod)} : CanFail(lims, y) \/ (CanPass(lims, y) /\ y \in emitted)}}
         \cup
         {[product |-> Tail(prod), emitted |-> emitted \cup {x},
           out |-> Append(o, this_combo(cs, lims, forced, x))] :
            x \in {y \in {Head(prod)} : CanPass(lims, y) /\ y \notin emitted}}

DetInit ==
    /\ courses \in CourseTuples
    /\ coursesB \in Orders(Range(courses))
    /\ limits \in LimitTuples \ {<<>>}
    /\ forced_clbids = {}
    /\ pc = "start"
    /\ product = <<>> /\ productB = <<>>
    /\ emitted_solutions = {} /\ emittedB = {}
    /\ out = <<>> /\ outB = <<>>
    /\ CsIdle /\ ArIdle /\ LaterIdle

\* Both runs compute steps 0 and 1 and open their products.
DetApply ==
    /\ pc = "start"
    /\ product' = all_these_items(courses, limits, forced_clbids)
    /\ productB' = all_these_items(coursesB, limits, forced_clbids)
    /\ pc' = "product"
    /\ UNCHANGED <<courses, coursesB, limits, forced_clbids, emitted_solutions, emittedB, out, outB>>
    /\ UNCHANGED beyondLimit

\* Both runs take the next tuple of their product through the loop body.
DetStep ==
    /\ pc = "product"
    /\ product # <<>> \/ productB # <<>>
    /\ \E a \in StepOutcomes(courses, limits, forced_clbids, product, emitted_solutions, out),
          b \in StepOutcomes(coursesB, limits, forced_clbids, productB, emittedB, outB) :
            /\ product' = a.product /\ emitted_solutions' = a.emitted /\ out' = a.out
            /\ productB' = b.product /\ emittedB' = b.emitted /\ outB' = b.out
    /\ UNCHANGED <<courses, coursesB, limits, forced_clbids, pc>>
    /\ UNCHANGED beyondLimit

\* Both products are exhausted: both generators return.
DetExhausted ==
    /\ pc = "product"
    /\ product = <<>> /\ productB = <<>>
    /\ pc' = "done"
    /\ UNCHANGED <<courses, coursesB, limits, forced_clbids, product, productB,
                   emitted_solutions, emittedB, out, outB>>
    /\ UNCHANGED beyondLimit

DetNext == DetApply \/ DetStep \/ DetExhausted

SpecDet == DetInit /\ [][DetNext]_vars

(***************************************************************************)
(* Properties of the two runs (Part 2).                                    *)
(***************************************************************************)
\* C8: two runs on the same set of courses and the same limits emit the same
\* sequence of transcripts.
C8_SameSequence ==
    pc = "done" => out = outB

(***************************************************************************)
(* Part 3.  CourseSolution.audit: the course rules of one solution are     *)
(* audited one after the other against the context's transcript.           *)
(***************************************************************************)
\* The names a transcript entry answers to: course() and course_shorthand().
CourseNames ==
    { [course |-> "ART 101", shorthand |-> "ART 101"],
      [course |-> "ASIAN/REL 250", shorthand |-> "AS/RE 250"] }

\* class CourseStatus, as far as the audit tells its values apart.
CourseStatus == {"Ok", "InProgress", "DidNotComplete"}

\* The transcripts: the entry at position i has clbid i.
CsTranscripts ==
    UNION {[1..n -> [name : CourseNames, status : CourseStatus]] : n \in 0..MaxEntries}

\* What a course rule may name.
CsReferences ==
    {n.course : n \in CourseNames} \cup {n.shorthand : n \in CourseNames}

\* RequirementContext.find_course: the position (the clbid) of the first
\* entry that was completed or is in progress and answers to c; 0 for None.
find_course(transcript, c) ==
    LET hits == {i \in 1..Len(transcript) :
                    /\ transcript[i].status # "DidNotComplete"
                    /\ (transcript[i].name.course = c \/ transcript[i].name.shorthand = c)}
    IN  IF hits = {} THEN 0 ELSE CHOOSE i \in hits : \A k \in hits : i <= k

\* CourseSolution.audit: the CourseResult for the rule naming `course`.
CourseSolution_audit(transcript, course) ==
    LET found_course == find_course(transcript, course)
    IN  IF found_course # 0
        THEN [course |-> course, status |-> transcript[found_course].status, success |-> TRUE]
        ELSE [course |-> course, status |-> "NotTaken", success |-> FALSE]

CsInit ==
    /\ cs_transcript \in CsTranscripts
    /\ cs_rules \in UNION {[1..n -> CsReferences] : n \in 1..MaxRules}
    /\ cs_multicountable \in SUBSET {"ART 101"}
    /\ cs_results = <<>>
    /\ LimitIdle /\ DetIdle /\ ArIdle /\ LaterIdle

\* The next course rule of the solution is audited.
AuditCourse ==
    /\ Len(cs_results) < Len(cs_rules)
    /\ cs_results' =
        Append(cs_results, CourseSolution_audit(cs_transcript, cs_rules[Len(cs_results) + 1]))
    /\ UNCHANGED <<cs_transcript, cs_rules, cs_multicountable>>
    /\ UNCHANGED <<limitVars, detVars, arVars, laterVars>>

CsNext == AuditCourse

SpecCourse == CsInit /\ [][CsNext]_vars

\* C9: a transcript course satisfies at most one course rule of a solution:
\* of two audited course rules that found the same transcript entry, at most
\* one is a success, unless the multi-count policy lets the course count twice.
C9_CourseSatisfiesOneRule ==
    \A i, j \in 1..Len(cs_results) :
        ( /\ i < j
          /\ cs_results[i].success /\ cs_results[j].success
          /\ find_course(cs_transcript, cs_rules[i]) = find_course(cs_transcript, cs_rules[j]) )
        => cs_transcript[find_course(cs_transcript, cs_rules[i])].name.course \in cs_multicountable

(***************************************************************************)
(* Part 4.  The generator AreaOfStudy.solutions and its consumer.  One     *)
(* context, with one claim ledger, is built per limited transcript; the    *)
(* consumer pulls AreaSolutions and audits them in any order.  A claim is  *)
(* [clbid, by], by the <<limited transcript, solution>> it was made for.   *)
(***************************************************************************)
\* The courses of a limited transcript that an audit may claim.
ArClbids == {1, 2}

\* The <<limited transcript, solution>> the generator constructs after
\* `at`, <<0, 0>> when both loops are over.
NextAttempt(sols, at) ==
    IF at[1] >= 1 /\ at[2] < sols[at[1]] THEN <<at[1], at[2] + 1>>
    ELSE LET later == {t \in (at[1] + 1)..Len(sols) : sols[t] >= 1}
         IN  IF later = {} THEN <<0, 0>>
             ELSE <<CHOOSE t \in later : \A u \in later : t <= u, 1>>

\* The ledger holds a claim made for another attempt than `attempt`.
HoldsForeign(ledger, attempt) == \E claim \in ledger : claim.by # attempt

\* ctx.make_claim for each wanted course: a course claimed already is refused.
make_claims(ledger, wanted, attempt) ==
    ledger \cup {[clbid |-> c, by |-> attempt] :
                    c \in {w \in wanted : \A claim \in ledger : claim.clbid # w}}

\* ctx.reset_claims()
reset_claims(ledger) == {}

ArInit ==
    /\ ar_solutions \in UNION {[1..n -> 0..MaxSolutions] : n \in 0..MaxLimited}
    /\ ar_pc = "start"
    /\ ar_at = <<0, 0>>
    /\ ar_ledger = [t \in 1..Len(ar_solutions) |-> {}]
    /\ ar_yielded = <<>>
    /\ ar_log = {}
    /\ LimitIdle /\ DetIdle /\ CsIdle /\ LaterIdle

\* The consumer asks for the next solution and there is one: the root rule
\* constructs it against the context of its limited transcript (a new
\* context for a new limited transcript), the context's claims are reset, and
\* the AreaSolution is yielded with that context.
PullSolution ==
    /\ ar_pc \in {"start", "yielded"}
    /\ NextAttempt(ar_solutions, ar_at) # <<0, 0>>
    /\ LET attempt == NextAttempt(ar_solutions, ar_at)
           ctx == attempt[1]
       IN  /\ ar_log' = ar_log \cup
                {[attempt |-> attempt, phase |-> "construct",
                  foreign |-> HoldsForeign(ar_ledger[ctx], attempt)]}
           /\ ar_ledger' = [ar_ledger EXCEPT ![ctx] = reset_claims(@)]
           /\ ar_yielded' = Append(ar_yielded, [attempt |-> attempt, ctx |-> ctx, audited |-> FALSE])
           /\ ar_at' = attempt
    /\ ar_pc' = "yielded"
    /\ UNCHANGED ar_solutions
    /\ UNCHANGED <<limitVars, detVars, csVars, laterVars>>

\* The consumer asks for the next solution and both loops are over.
AllSolutionsGenerated ==
    /\ ar_pc \in {"start", "yielded"}
    /\ NextAttempt(ar_solutions, ar_at) = <<0, 0>>
    /\ ar_pc' = "done"
    /\ UNCHANGED <<ar_solutions, ar_at, ar_ledger, ar_yielded, ar_log>>
    /\ UNCHANGED <<limitVars, detVars, csVars, laterVars>>

\* AreaSolution.audit: the consumer audits a solution it holds; the audit
\* claims courses in the context the solution was yielded with.
AuditSolution ==
    /\ \E k \in 1..Len(ar_yielded), wanted \in (SUBSET ArClbids) \ {{}} :
        /\ ~ar_yielded[k].audited
        /\ LET attempt == ar_yielded[k].attempt
               ctx == ar_yielded[k].ctx
           IN  /\ ar_log' = ar_log \cup
                    {[attempt |-> attempt, phase |-> "audit",
                      foreign |-> HoldsForeign(ar_ledger[ctx], attempt)]}
               /\ ar_ledger' = [ar_ledger EXCEPT ![ctx] = make_claims(@, wanted, attempt)]
        /\ ar_yielded' = [ar_yielded EXCEPT ![k].audited = TRUE]
    /\ UNCHANGED <<ar_solutions, ar_pc, ar_at>>
    /\ UNCHANGED <<limitVars, detVars, csVars, laterVars>>

ArNext == PullSolution \/ AllSolutionsGenerated \/ AuditSolution

SpecArea == ArInit /\ [][ArNext]_vars

\* C10: every solution is constructed, and audited, against a ledger that
\* holds no claim of another solution attempt, in whatever order the
\* consumer pulls and audits.
C10_LedgersIsolated ==
    \A e \in ar_log : ~e.foreign

(***************************************************************************)
(* Part 5.  compare_path_tuples and compare_path_tuples__lt, bases.py.  A  *)
(* path is a tuple of segments; a segment, a Python str, is written as the *)
(* tuple of its characters, so that '[10]' is <<"[", "1", "0", "]">>.      *)
(***************************************************************************)
EarlierIdle == LimitIdle /\ DetIdle /\ CsIdle /\ ArIdle

Digits == <<"0", "1", "2", "3", "4", "5", "6", "7", "8", "9">>

\* ord(ch), for the characters the segments are made of.
Ord(ch) ==
    CASE ch = "$" -> 36 [] ch = "%" -> 37 [] ch = "." -> 46
      [] ch = "0" -> 48 [] ch = "1" -> 49 [] ch = "2" -> 50 [] ch = "3" -> 51
      [] ch = "4" -> 52 [] ch = "5" -> 53 [] ch = "6" -> 54 [] ch = "7" -> 55
      [] ch = "8" -> 56 [] ch = "9" -> 57
      [] ch = "A" -> 65 [] ch = "[" -> 91 [] ch = "]" -> 93
      [] ch = "c" -> 99 [] ch = "o" -> 111

\* int(s) of a str of decimal digits.
RECURSIVE int(_)
int(s) ==
    IF Len(s) = 0 THEN 0
    ELSE 10 * int(SubSeq(s, 1, Len(s) - 1))
            + (CHOOSE d \in 0..9 : Digits[d + 1] = s[Len(s)])

\* s < t of two str: by the first differing character, a proper prefix first.
RECURSIVE StrLess(_, _)
StrLess(s, t) ==
    IF Len(t) = 0 THEN FALSE
    ELSE IF Len(s) = 0 THEN TRUE
    ELSE IF s[1] # t[1] THEN Ord(s[1]) < Ord(t[1])
    ELSE StrLess(Tail(s), Tail(t))

\* `a and a[0] == '['`: the segment is converted to an integer.
IsIndex(seg) == Len(seg) > 0 /\ seg[1] = "["

\* a[1:-1]
Inner(seg) == SubSeq(seg, 2, Len(seg) - 1)

\* A variant of the loop of compare_path_tuples__lt that compares every
\* segment as a str, indices too.
RECURSIVE lt_loop_as_str(_, _, _)
lt_loop_as_str(path_x, path_y, i) ==
    IF i > Len(path_x) THEN TRUE
    ELSE IF path_x[i] = path_y[i] THEN lt_loop_as_str(path_x, path_y, i + 1)
    ELSE StrLess(path_x[i], path_y[i])

\* The loop of compare_path_tuples__lt over zip(path_a, path_b), from the
\* i-th pair on.
RECURSIVE lt_loop(_, _, _)
lt_loop(path_x, path_y, i) ==
    IF i > Len(path_x) THEN TRUE
    ELSE LET a == path_x[i]
             b == path_y[i]
         IN  IF IsIndex(a) /\ IsIndex(b)
             THEN IF int(Inner(a)) = int(Inner(b)) THEN lt_loop(path_x, path_y, i + 1)
                  ELSE int(Inner(a)) < int(Inner(b))
             ELSE IF ~IsIndex(a) /\ ~IsIndex(b)
             THEN IF a = b THEN lt_loop(path_x, path_y, i + 1)
                  ELSE StrLess(a, b)
             ELSE IsIndex(a)

compare_path_tuples__lt(path_x, path_y) ==
    IF Len(path_x) < Len(path_y) THEN TRUE
    ELSE IF Len(path_y) < Len(path_x) THEN FALSE
    ELSE lt_loop(path_x, path_y, 1)

\* A variant of compare_path_tuples that never takes its first branch.
compare_path_tuples_no_equal(x, y) ==
    IF compare_path_tuples__lt(x, y) THEN -1 ELSE 1

compare_path_tuples(x, y) ==
    IF x = y THEN 0
    ELSE IF compare_path_tuples__lt(x, y) THEN -1
    ELSE 1

\* sorted([x, y], key=sort_by_path): y goes first when its key is less.
sorted_by_path(x, y) ==
    IF compare_path_tuples(y, x) < 0 THEN <<y, x>> ELSE <<x, y>>

\* The segments after the root: '.c', '.co', '%A', '[2]', '[10]'.
Segments ==
    { <<".", "c">>, <<".", "c", "o">>, <<"%", "A">>,
      <<"[", "2", "]">>, <<"[", "1", "0", "]">> }

\* The paths of result nodes: the root '$' and what hangs below it.
Paths == {<<(<<"$">>)>> \o t : t \in SeqsUpTo(Segments, MaxPathLen)}

PathInit ==
    /\ path_a \in Paths
    /\ path_b \in Paths
    /\ path_cmp = <<>>
    /\ EarlierIdle /\ ClauseIdle /\ NodeIdle /\ RqIdle /\ LdIdle /\ DriverIdle

\* The two nodes are compared, both ways round, and sorted.
ComparePaths ==
    /\ path_cmp = <<>>
    /\ path_cmp' = [ lt |-> compare_path_tuples__lt(path_a, path_b),
                     ab |-> compare_path_tuples(path_a, path_b),
                     ba |-> compare_path_tuples(path_b, path_a),
                     sorted_ab |-> sorted_by_path(path_a, path_b),
                     sorted_ba |-> sorted_by_path(path_b, path_a) ]
    /\ UNCHANGED <<path_a, path_b>>
    /\ UNCHANGED <<earlierVars, clauseVars, nodeVars, rqVars, ldVars, driverVars>>

PathNext == ComparePaths

SpecPath == PathInit /\ [][PathNext]_vars

\* The first position at which the two paths differ, 0 if there is none
\* within the shorter of them.
FirstDifference(x, y) ==
    LET d == {i \in 1..Len(x) : i <= Len(y) /\ x[i] # y[i]}
    IN  IF d = {} THEN 0 ELSE CHOOSE i \in d : \A k \in d : i <= k

\* The value of an index segment, read off its digits.
IndexValue(seg) ==
    IF seg = <<"[", "2", "]">> THEN 2 ELSE 10

\* C11: of two distinct paths the one with fewer segments comes first; of two
\* paths of equal length the first differing segment decides: two indices by
\* their integer values, an index before any other segment, two other
\* segments as strings.
C11_LtOrdersPaths ==
    (path_cmp # <<>> /\ path_a # path_b) =>
        IF Len(path_a) # Len(path_b)
        THEN path_cmp.lt = (Len(path_a) < Len(path_b))
        ELSE LET i == FirstDifference(path_a, path_b)
                 a == path_a[i]
                 b == path_b[i]
             IN  path_cmp.lt =
                    IF IsIndex(a) /\ IsIndex(b) THEN IndexValue(a) < IndexValue(b)
                    ELSE IF IsIndex(a) THEN TRUE
                    ELSE IF IsIndex(b) THEN FALSE
                    ELSE StrLess(a, b)

\* Two paths of equal length whose first difference is '[2]' against '[10]'
\* have been compared.
C11_Witness ==
    /\ path_cmp # <<>>
    /\ Len(path_a) = Len(path_b) /\ Len(path_a) = 3
    /\ path_a[2] = path_b[2]
    /\ path_a[3] = <<"[", "2", "]">> /\ path_b[3] = <<"[", "1", "0", "]">>
    /\ path_cmp.lt

\* C12: compare_path_tuples is a total order: compare(a, b) = -compare(b, a),
\* compare(a, b) = 0 only for the same path, compare is transitive, and
\* sorting the two nodes gives one order whichever comes first in the input.
C12_TotalOrder ==
    path_cmp # <<>> =>
        /\ path_cmp.ab = -path_cmp.ba
        /\ (path_cmp.ab = 0 => path_a = path_b)
        /\ \A c \in Paths :
            (path_cmp.ab < 0 /\ compare_path_tuples(path_b, c) < 0)
                => compare_path_tuples(path_a, c) < 0
        /\ path_cmp.sorted_ab = path_cmp.sorted_ba

\* Two distinct paths of the same length, an index against a name at their
\* first difference, have been compared and sorted.
C12_Witness ==
    /\ path_cmp # <<>>
    /\ path_a # path_b /\ Len(path_a) = Len(path_b)
    /\ IsIndex(path_a[FirstDifference(path_a, path_b)])
    /\ ~IsIndex(path_b[FirstDifference(path_a, path_b)])
    /\ path_cmp.ab = -1 /\ path_cmp.ba = 1
    /\ path_cmp.sorted_ba = <<path_a, path_b>>

(***************************************************************************)
(* Part 6.  SingleClause.input_size_range, degreepath/clause.py.           *)
(***************************************************************************)
\* class Operator, as far as input_size_range tells its values apart: the
\* six it handles and one, In, that it does not.
Operator ==
    {"EqualTo", "NotEqualTo", "GreaterThanOrEqualTo", "GreaterThan",
     "LessThan", "LessThanOrEqualTo", "In"}

\* SingleClause.expected: an int, or a value of another type (a str).
Expected ==
    [type : {"int"}, value : 0..MaxExpected] \cup {[type |-> "str", value |-> 0]}

SingleClause == [operator : Operator, expected : Expected, at_most : BOOLEAN]

\* max(a, b)
max(a, b) == IF a >= b THEN a ELSE b

\* range(a, b) as the tuple of what it yields.
range(a, b) == [i \in 1..(IF b > a THEN b - a ELSE 0) |-> a + i - 1]

\* input_size_range raises TypeError instead of yielding.
RaisesTypeError(clause) ==
    \/ clause.expected.type # "int"
    \/ clause.operator = "In"

\* A variant of input_size_range that does not look at at_most.
input_size_range_without_at_most(clause, maximum) ==
    LET expected == clause.expected.value
    IN  CASE clause.operator = "EqualTo" -> range(expected, expected + 1)
          [] clause.operator = "NotEqualTo" ->
                range(0, expected) \o range(expected + 1, max(expected + 1, maximum + 1))
          [] clause.operator = "GreaterThanOrEqualTo" ->
                range(expected, max(expected + 1, maximum + 1))
          [] clause.operator = "GreaterThan" ->
                range(expected + 1, max(expected + 2, maximum + 1))
          [] clause.operator = "LessThan" -> range(0, expected)
          [] clause.operator = "LessThanOrEqualTo" -> range(0, expected + 1)

\* A variant of input_size_range whose range for NotEqualTo does not skip
\* the expected value.
input_size_range_not_skipping(clause, maximum) ==
    LET expected == clause.expected.value
    IN  CASE clause.operator = "EqualTo"
              \/ (clause.operator = "GreaterThanOrEqualTo" /\ clause.at_most = TRUE) ->
                range(expected, expected + 1)
          [] clause.operator = "NotEqualTo" ->
                range(0, expected) \o range(expected, max(expected + 1, maximum + 1))
          [] clause.operator = "GreaterThanOrEqualTo" /\ clause.at_most # TRUE ->
                range(expected, max(expected + 1, maximum + 1))
          [] clause.operator = "GreaterThan" ->
                range(expected + 1, max(expected + 2, maximum + 1))
          [] clause.operator = "LessThan" -> range(0, expected)
          [] clause.operator = "LessThanOrEqualTo" -> range(0, expected + 1)

\* What input_size_range yields, in order, when it does not raise.
input_size_range(clause, maximum) ==
    LET expected == clause.expected.value
    IN  CASE clause.operator = "EqualTo"
              \/ (clause.operator = "GreaterThanOrEqualTo" /\ clause.at_most = TRUE) ->
                range(expected, expected + 1)
          [] clause.operator = "NotEqualTo" ->
                range(0, expected) \o range(expected + 1, max(expected + 1, maximum + 1))
          [] clause.operator = "GreaterThanOrEqualTo" /\ clause.at_most # TRUE ->
                range(expected, max(expected + 1, maximum + 1))
          [] clause.operator = "GreaterThan" ->
                range(expected + 1, max(expected + 2, maximum + 1))
          [] clause.operator = "LessThan" -> range(0, expected)
          [] clause.operator = "LessThanOrEqualTo" -> range(0, expected + 1)

ClauseInit ==
    /\ cl_clause \in SingleClause
    /\ cl_maximum \in 0..MaxMaximum
    /\ cl_pc = "call"
    /\ cl_sizes = <<>>
    /\ EarlierIdle /\ PathIdle /\ NodeIdle /\ RqIdle /\ LdIdle /\ DriverIdle

\* The iterator is run to its end.
YieldSizes ==
    /\ cl_pc = "call"
    /\ ~RaisesTypeError(cl_clause)
    /\ cl_sizes' = input_size_range(cl_clause, cl_maximum)
    /\ cl_pc' = "returned"
    /\ UNCHANGED <<cl_clause, cl_maximum>>
    /\ UNCHANGED <<earlierVars, pathVars, nodeVars, rqVars, ldVars, driverVars>>

\* The iterator raises TypeError: a non-integer expected value or an
\* operator without a range.
RaiseTypeError ==
    /\ cl_pc = "call"
    /\ RaisesTypeError(cl_clause)
    /\ cl_pc' = "raised"
    /\ UNCHANGED <<cl_clause, cl_maximum, cl_sizes>>
    /\ UNCHANGED <<earlierVars, pathVars, nodeVars, rqVars, ldVars, driverVars>>

ClauseNext == YieldSizes \/ RaiseTypeError

SpecClause == ClauseInit /\ [][ClauseNext]_vars

\* n op N
Holds(n, op, N) ==
    CASE op = "EqualTo" -> n = N
      [] op = "NotEqualTo" -> n # N
      [] op = "GreaterThanOrEqualTo" -> n >= N
      [] op = "GreaterThan" -> n > N
      [] op = "LessThan" -> n < N
      [] op = "LessThanOrEqualTo" -> n <= N

\* The yielded values are exactly the n in 0..top with n op N, each once.
YieldsExactly(top) ==
    /\ Range(cl_sizes) =
        {n \in 0..top : Holds(n, cl_clause.operator, cl_clause.expected.value)}
    /\ Cardinality(Range(cl_sizes)) = Len(cl_sizes)

\* C13, as claimed: without at_most the iterator yields exactly the integers
\* n, 0 <= n <= maximum, with n op N, each once.
C13_ExactlyWithinMaximum ==
    (cl_pc = "returned" /\ ~cl_clause.at_most) => YieldsExactly(cl_maximum)

\* C13, amended: without at_most the iterator yields exactly the integers n,
\* 0 <= n <= max(maximum, N) (max(maximum, N + 1) for >), with n op N, each
\* once: the sizes the operator asks for are tried even above the maximum.
C13_ExactlyUpToExpected ==
    (cl_pc = "returned" /\ ~cl_clause.at_most) =>
        YieldsExactly(max(cl_maximum,
                          IF cl_clause.operator = "GreaterThan"
                          THEN cl_clause.expected.value + 1
                          ELSE cl_clause.expected.value))

\* `>= N` without at_most, N above the maximum: N alone was yielded.
C13_Witness ==
    /\ cl_pc = "returned" /\ ~cl_clause.at_most
    /\ cl_clause.operator = "GreaterThanOrEqualTo"
    /\ cl_clause.expected.value > cl_maximum
    /\ cl_sizes = <<cl_clause.expected.value>>

\* C14: `>= N` with at_most yields N alone whatever the maximum; `<= N`
\* yields 0, 1, ..., N in that order.
C14_AtMostAndUpTo ==
    cl_pc = "returned" =>
        /\ (cl_clause.operator = "GreaterThanOrEqualTo" /\ cl_clause.at_most)
                => cl_sizes = <<cl_clause.expected.value>>
        /\ cl_clause.operator = "LessThanOrEqualTo"
                => cl_sizes = [i \in 1..(cl_clause.expected.value + 1) |-> i - 1]

\* `>= N` with at_most and a maximum above N: N alone was yielded.
C14_Witness ==
    /\ cl_pc = "returned" /\ cl_clause.at_most
    /\ cl_clause.operator = "GreaterThanOrEqualTo"
    /\ cl_clause.expected.value < cl_maximum
    /\ cl_sizes = <<cl_clause.expected.value>>

(***************************************************************************)
(* Part 7.  Status and rank of result nodes: Base (dp/base/bases.py),      *)
(* BaseQueryRule (dp/base/query.py), CountResult and RequirementResult     *)
(* (degreepath/result) and RequirementResult (degreepath/requirement.py).  *)
(***************************************************************************)
\* class ResultStatus, as BaseQueryRule.status and Base.status name it.
ResultStatus ==
    {"Waived", "Done", "PendingCurrent", "PendingRegistered", "NeedsMoreItems", "Empty"}

\* Sum of f over the tuple s of records, f one of "rank", "max_rank".
RECURSIVE SumOf(_, _)
SumOf(s, f) == IF s = <<>> THEN 0 ELSE s[1][f] + SumOf(Tail(s), f)

\* A matched course, by the three flags Base.status reads.
MatchedCourse ==
    { [is_in_progress |-> FALSE, is_in_progress_this_term |-> FALSE,
       is_in_progress_in_future |-> FALSE],
      [is_in_progress |-> TRUE, is_in_progress_this_term |-> TRUE,
       is_in_progress_in_future |-> FALSE],
      [is_in_progress |-> TRUE, is_in_progress_this_term |-> FALSE,
       is_in_progress_in_future |-> TRUE] }

\* A child result: its rank, its max_rank (rank <= max_rank) and its ok().
ChildResult ==
    {c \in [rank : 0..MaxChildRank, max_rank : 0..MaxChildRank, ok : BOOLEAN] :
        c.rank <= c.max_rank}

\* `result: Optional[...]`: None is written <<>>, a child as <<child>>.
OptionalChild == {<<>>} \cup {<<c>> : c \in ChildResult}

\* An assertion of a query node: its status() and its rank().
AssertionResult == [status : ResultStatus, rank : 0..1]

BaseNodes == [kind : {"Base"}, overridden : BOOLEAN, matched : SUBSET MatchedCourse]

QueryNodes ==
    [kind : {"BaseQueryRule"}, overridden : BOOLEAN,
     assertions : SeqsUpTo(AssertionResult, MaxAssertions)]

RequirementResultNodes ==
    [kind : {"RequirementResult"}, overridden : BOOLEAN, result : OptionalChild]

CountResultNodes == [kind : {"CountResult"}, of : SeqsUpTo(ChildResult, MaxChildren)]

AuditedRequirementNodes ==
    [kind : {"requirement.RequirementResult"},
     audited_by : {"None", "department", "registrar"}, result : OptionalChild]

\* Base.is_waived, and the waived() BaseQueryRule asks for.
is_waived(node) == node.overridden

\* Base.rank: the pair (rank, max_rank).
Base_rank(node) == IF is_waived(node) THEN <<1, 1>> ELSE <<0, 1>>

Base_status(node) ==
    LET has_ip_courses == \E c \in node.matched : c.is_in_progress
        has_enrolled_courses == \E c \in node.matched : c.is_in_progress_this_term
        has_registered_courses == \E c \in node.matched : c.is_in_progress_in_future
    IN  IF is_waived(node) THEN "Waived"
        ELSE IF has_ip_courses /\ has_enrolled_courses /\ ~has_registered_courses
        THEN "PendingCurrent"
        ELSE IF has_ip_courses /\ has_registered_courses THEN "PendingRegistered"
        ELSE IF Base_rank(node)[1] < 1 THEN "NeedsMoreItems"
        ELSE "Empty"

BaseQueryRule_rank(node) ==
    IF is_waived(node) THEN 1 ELSE SumOf(node.assertions, "rank")

\* The max_rank of a query node: 1 when waived, else one per assertion.
BaseQueryRule_max_rank(node) ==
    IF is_waived(node) THEN 1 ELSE Len(node.assertions)

\* A variant of BaseQueryRule.status whose ladder has no PendingRegistered step.
BaseQueryRule_status_short_ladder(node) ==
    LET statuses == {node.assertions[i].status : i \in 1..Len(node.assertions)}
    IN  IF is_waived(node) THEN "Waived"
        ELSE IF statuses \subseteq {"Done", "Waived"} THEN "Done"
        ELSE IF statuses \subseteq {"Done", "Waived", "PendingCurrent"} THEN "PendingCurrent"
        ELSE IF statuses \subseteq {"Done", "Waived", "PendingCurrent", "PendingRegistered",
                                    "NeedsMoreItems"}
        THEN "NeedsMoreItems"
        ELSE "Empty"

BaseQueryRule_status(node) ==
    LET statuses == {node.assertions[i].status : i \in 1..Len(node.assertions)}
    IN  IF is_waived(node) THEN "Waived"
        ELSE IF statuses \subseteq {"Done", "Waived"} THEN "Done"
        ELSE IF statuses \subseteq {"Done", "Waived", "PendingCurrent"} THEN "PendingCurrent"
        ELSE IF statuses \subseteq {"Done", "Waived", "PendingCurrent", "PendingRegistered"}
        THEN "PendingRegistered"
        ELSE IF statuses \subseteq {"Done", "Waived", "PendingCurrent", "PendingRegistered",
                                    "NeedsMoreItems"}
        THEN "NeedsMoreItems"
        ELSE "Empty"

\* RequirementResult of degreepath/result/requirement.py.
RequirementResult_ok(node) ==
    IF node.overridden THEN node.overridden
    ELSE IF node.result # <<>> THEN node.result[1].ok ELSE FALSE

RequirementResult_status(node) ==
    IF RequirementResult_ok(node) THEN "Pass" ELSE "Problem"

\* A variant of RequirementResult.rank that adds the boost to a missing
\* result's 0 as well.
RequirementResult_rank_boost_without_result(node) ==
    LET boost == IF RequirementResult_ok(node) THEN 1 ELSE 0
    IN  (IF node.result # <<>> THEN node.result[1].rank ELSE 0) + boost

RequirementResult_rank(node) ==
    LET boost == IF RequirementResult_ok(node) THEN 1 ELSE 0
    IN  IF node.result # <<>> THEN node.result[1].rank + boost ELSE 0

RequirementResult_max_rank(node) ==
    IF node.result # <<>> THEN node.result[1].max_rank + 1 ELSE 0

\* CountResult of degreepath/result/count.py.
CountResult_ok(node) == \A i \in 1..Len(node.of) : node.of[i].ok

CountResult_rank(node) == SumOf(node.of, "rank")

\* RequirementResult of degreepath/requirement.py.
requirement_RequirementResult_ok(node) ==
    IF node.audited_by # "None" THEN TRUE
    ELSE IF node.result = <<>> THEN FALSE
    ELSE node.result[1].ok

requirement_RequirementResult_rank(node) ==
    IF node.result = <<>> THEN 0
    ELSE node.result[1].rank
            + (IF requirement_RequirementResult_ok(node) THEN 1 ELSE 0)

\* RequirementResult.state: "result" when audited_by is set, else the state of
\* self.result; with result None that is an attribute of None, which raises
\* AttributeError.
requirement_RequirementResult_state_raises(node) ==
    node.audited_by = "None" /\ node.result = <<>>

NodeInit ==
    /\ nd_node \in BaseNodes \cup QueryNodes \cup RequirementResultNodes
                    \cup CountResultNodes \cup AuditedRequirementNodes
    /\ nd_report = <<>>
    /\ EarlierIdle /\ PathIdle /\ ClauseIdle /\ RqIdle /\ LdIdle /\ DriverIdle

\* A Base node is asked for its status and rank.
ReportBase ==
    /\ nd_report = <<>> /\ nd_node.kind = "Base"
    /\ nd_report' = [status |-> Base_status(nd_node),
                     rank |-> Base_rank(nd_node)[1], max_rank |-> Base_rank(nd_node)[2]]
    /\ UNCHANGED nd_node
    /\ UNCHANGED <<earlierVars, pathVars, clauseVars, rqVars, ldVars, driverVars>>

\* A query node is asked for its status and rank.
ReportQuery ==
    /\ nd_report = <<>> /\ nd_node.kind = "BaseQueryRule"
    /\ nd_report' = [status |-> BaseQueryRule_status(nd_node),
                     rank |-> BaseQueryRule_rank(nd_node),
                     max_rank |-> BaseQueryRule_max_rank(nd_node)]
    /\ UNCHANGED nd_node
    /\ UNCHANGED <<earlierVars, pathVars, clauseVars, rqVars, ldVars, driverVars>>

\* A RequirementResult is asked for its status, ok, rank and max_rank.
ReportRequirementResult ==
    /\ nd_report = <<>> /\ nd_node.kind = "RequirementResult"
    /\ nd_report' = [status |-> RequirementResult_status(nd_node),
                     ok |-> RequirementResult_ok(nd_node),
                     rank |-> RequirementResult_rank(nd_node),
                     max_rank |-> RequirementResult_max_rank(nd_node)]
    /\ UNCHANGED nd_node
    /\ UNCHANGED <<earlierVars, pathVars, clauseVars, rqVars, ldVars, driverVars>>

\* A CountResult is asked for its ok and rank.
ReportCountResult ==
    /\ nd_report = <<>> /\ nd_node.kind = "CountResult"
    /\ nd_report' = [ok |-> CountResult_ok(nd_node), rank |-> CountResult_rank(nd_node)]
    /\ UNCHANGED nd_node
    /\ UNCHANGED <<earlierVars, pathVars, clauseVars, rqVars, ldVars, driverVars>>

\* RequirementResult.to_dict of requirement.py: it calls state() before ok() and
\* rank(), so where state() raises nothing is reported but the exception.
ReportAuditedRequirement ==
    /\ nd_report = <<>> /\ nd_node.kind = "requirement.RequirementResult"
    /\ nd_report' = IF requirement_RequirementResult_state_raises(nd_node)
                    THEN [raises |-> "AttributeError"]
                    ELSE [ok |-> requirement_RequirementResult_ok(nd_node),
                          rank |-> requirement_RequirementResult_rank(nd_node)]
    /\ UNCHANGED nd_node
    /\ UNCHANGED <<earlierVars, pathVars, clauseVars, rqVars, ldVars, driverVars>>

NodeNext ==
    \/ ReportBase
    \/ ReportQuery
    \/ ReportRequirementResult
    \/ ReportCountResult
    \/ ReportAuditedRequirement

SpecNode == NodeInit /\ [][NodeNext]_vars

\* The place of a status in the order from best to worst.
Badness(status) ==
    CASE status = "Waived" -> 0 [] status = "Done" -> 1
      [] status = "PendingCurrent" -> 2 [] status = "PendingRegistered" -> 3
      [] status = "NeedsMoreItems" -> 4 [] status = "Empty" -> 5

\* The worst of a non-empty set of statuses.
Worst(statuses) == CHOOSE s \in statuses : \A t \in statuses : Badness(t) <= Badness(s)

AssertionStatuses == {nd_node.assertions[i].status : i \in 1..Len(nd_node.assertions)}

\* C15, as claimed: the status of a non-waived query node is the worst of
\* the statuses of its assertions.
C15_WorstOfAssertions ==
    (nd_report # <<>> /\ nd_node.kind = "BaseQueryRule"
        /\ ~nd_node.overridden /\ nd_node.assertions # <<>>)
    => nd_report.status = Worst(AssertionStatuses)

\* C15, amended: the status of a non-waived query node is the worst of Done
\* and the statuses of its assertions: a waived assertion counts as done,
\* and so does the absence of assertions.
C15_WorstOfAssertionsOrDone ==
    (nd_report # <<>> /\ nd_node.kind = "BaseQueryRule" /\ ~nd_node.overridden)
    => nd_report.status = Worst(AssertionStatuses \cup {"Done"})

\* A non-waived query node with a waived and a pending assertion reported
\* the pending status.
C15_Witness ==
    /\ nd_report # <<>> /\ nd_node.kind = "BaseQueryRule" /\ ~nd_node.overridden
    /\ AssertionStatuses = {"Waived", "PendingRegistered"}
    /\ nd_report.status = "PendingRegistered"

\* C16: a waived (overridden) node, be it a Base, a query node or a
\* RequirementResult, reports status Waived and rank = max_rank.
C16_WaivedReportsFullRank ==
    (nd_report # <<>> /\ nd_node.kind \in {"Base", "BaseQueryRule", "RequirementResult"}
        /\ nd_node.overridden)
    => (nd_report.status = "Waived" /\ nd_report.rank = nd_report.max_rank)

\* C17: a RequirementResult whose child (if any) has rank <= max_rank, and a
\* Base node, report rank <= max_rank, overridden or not.
C17_RankWithinMaxRank ==
    (nd_report # <<>> /\ nd_node.kind \in {"Base", "RequirementResult"})
    => nd_report.rank <= nd_report.max_rank

\* An overridden RequirementResult whose child is short of its max_rank has
\* reported.
C17_Witness ==
    /\ nd_report # <<>> /\ nd_node.kind = "RequirementResult"
    /\ nd_node.overridden /\ nd_node.result # <<>>
    /\ nd_node.result[1].rank < nd_node.result[1].max_rank
    /\ nd_report.rank = nd_node.result[1].rank + 1

\* The children of an internal node.
ChildrenOf(node) == IF node.kind = "CountResult" THEN node.of ELSE node.result

InternalKinds == {"CountResult", "RequirementResult", "requirement.RequirementResult"}

\* An internal node has reported a rank.
RankReported ==
    /\ nd_report # <<>> /\ nd_node.kind \in InternalKinds
    /\ "rank" \in DOMAIN nd_report

\* C18: the rank of a Count result or a Requirement result is
\* sum(child.rank) / sum(child.max_rank), times its own max_rank of 1, and so
\* lies in [0, 1].
C18_RankNormalised ==
    RankReported
    => /\ nd_report.rank * SumOf(ChildrenOf(nd_node), "max_rank")
            = SumOf(ChildrenOf(nd_node), "rank")
       /\ 0 <= nd_report.rank /\ nd_report.rank <= 1

(***************************************************************************)
(* Part 8.  Requirement.load, the generator Requirement.solutions and      *)
(* RequirementSolution.audit, degreepath/requirement.py.  The child rule   *)
(* is written as the number of solutions it has; its k-th solution as k.   *)
(***************************************************************************)
\* The `data` of Requirement.load: the three audit flags and "result",
\* absent (<<>>) or a rule (<<n>>, a rule with n solutions).
RequirementData ==
    [department_audited : BOOLEAN, department_dash_audited : BOOLEAN,
     registrar_audited : BOOLEAN,
     result : {<<>>} \cup {<<n>> : n \in 0..MaxChildSolutions}]

\* Requirement.load: audited_by.
load_audited_by(data) ==
    LET first == IF data.department_audited THEN "department" ELSE "None"
    IN  IF data.department_dash_audited THEN "department"
        ELSE IF data.registrar_audited THEN "registrar"
        ELSE first

\* What the audit of a child solution may return: its ok() and its claims().
ChildAudit == [ok : BOOLEAN, claims : {{}, {1}}]

\* RequirementResult.ok
RequirementResult_audited_ok(audited_by, result) ==
    IF audited_by # "None" THEN TRUE
    ELSE IF result = <<>> THEN FALSE
    ELSE result[1].ok

\* RequirementResult.claims; without audit and without result it reads
\* None.claims() and raises.
RequirementResult_claims(audited_by, result) ==
    IF audited_by # "None" THEN {}
    ELSE IF result = <<>> THEN {}
    ELSE result[1].claims

RequirementResult_claims_raises(audited_by, result) ==
    audited_by = "None" /\ result = <<>>

RqInit ==
    /\ rq_data \in RequirementData
    /\ rq_audited_by = "None"
    /\ rq_pc = "data"
    /\ rq_pulled = 0
    /\ rq_yielded = <<>>
    /\ rq_results = <<>>
    /\ EarlierIdle /\ PathIdle /\ ClauseIdle /\ NodeIdle /\ LdIdle /\ DriverIdle

\* Requirement.load
LoadRequirement ==
    /\ rq_pc = "data"
    /\ rq_audited_by' = load_audited_by(rq_data)
    /\ rq_pc' = "loaded"
    /\ UNCHANGED <<rq_data, rq_pulled, rq_yielded, rq_results>>
    /\ UNCHANGED <<earlierVars, pathVars, clauseVars, nodeVars, ldVars, driverVars>>

\* Requirement.solutions, `if not self.result`: one solution without a
\* child solution is yielded.
YieldWithoutResult ==
    /\ rq_pc = "loaded"
    /\ rq_data.result = <<>>
    /\ rq_yielded' = Append(rq_yielded, [result |-> <<>>, inputs |-> <<>>])
    /\ rq_pc' = "returning"
    /\ UNCHANGED <<rq_data, rq_audited_by, rq_pulled, rq_results>>
    /\ UNCHANGED <<earlierVars, pathVars, clauseVars, nodeVars, ldVars, driverVars>>

\* Requirement.solutions, the for loop: the next solution of the child rule
\* is enumerated and yielded wrapped, with inputs [(ident, i)].
YieldWrapped ==
    /\ rq_pc \in {"loaded", "enumerating"}
    /\ rq_data.result # <<>>
    /\ rq_pulled < rq_data.result[1]
    /\ rq_pulled' = rq_pulled + 1
    /\ rq_yielded' = Append(rq_yielded, [result |-> <<rq_pulled + 1>>,
                                         inputs |-> <<rq_pulled>>])
    /\ rq_pc' = "enumerating"
    /\ UNCHANGED <<rq_data, rq_audited_by, rq_results>>
    /\ UNCHANGED <<earlierVars, pathVars, clauseVars, nodeVars, ldVars, driverVars>>

\* Requirement.solutions returns: after the yield without result, or when
\* the child rule has no further solution.
SolutionsReturn ==
    /\ \/ rq_pc = "returning"
       \/ /\ rq_pc \in {"loaded", "enumerating"}
          /\ rq_data.result # <<>>
          /\ rq_pulled = rq_data.result[1]
    /\ rq_pc' = "done"
    /\ UNCHANGED <<rq_data, rq_audited_by, rq_pulled, rq_yielded, rq_results>>
    /\ UNCHANGED <<earlierVars, pathVars, clauseVars, nodeVars, ldVars, driverVars>>

\* RequirementSolution.audit of the next yielded solution, and what its
\* RequirementResult answers to ok() and claims().
AuditRequirementSolution ==
    /\ Len(rq_results) < Len(rq_yielded)
    /\ \E child \in ChildAudit :
        LET solution == rq_yielded[Len(rq_results) + 1]
            result == IF solution.result = <<>> THEN <<>> ELSE <<child>>
        IN  rq_results' = Append(rq_results,
                [ result |-> result,
                  ok |-> RequirementResult_audited_ok(rq_audited_by, result),
                  claims |-> RequirementResult_claims(rq_audited_by, result),
                  claims_raises |-> RequirementResult_claims_raises(rq_audited_by, result) ])
    /\ UNCHANGED <<rq_data, rq_audited_by, rq_pc, rq_pulled, rq_yielded>>
    /\ UNCHANGED <<earlierVars, pathVars, clauseVars, nodeVars, ldVars, driverVars>>

RqNext ==
    \/ LoadRequirement
    \/ YieldWithoutResult
    \/ YieldWrapped
    \/ SolutionsReturn
    \/ AuditRequirementSolution

SpecRequirement == RqInit /\ [][RqNext]_vars

\* The requirement is marked department_audited or registrar_audited.
MarkedAudited ==
    rq_data.department_audited \/ rq_data.department_dash_audited \/ rq_data.registrar_audited

\* C19: once the generator has returned, an audited requirement has yielded
\* exactly one solution, without enumerating its child rule, and that
\* solution audits as passing with no claims; a requirement that is not
\* audited has yielded one wrapped solution per solution of its child
\* rule, in the child's order.
C19_AuditedYieldsOneWaivedPass ==
    rq_pc = "done" =>
        /\ MarkedAudited =>
            /\ Len(rq_yielded) = 1
            /\ rq_pulled = 0
            /\ \A k \in 1..Len(rq_results) :
                rq_results[k].ok /\ rq_results[k].claims = {} /\ ~rq_results[k].claims_raises
        /\ (~MarkedAudited /\ rq_data.result # <<>>) =>
            /\ Len(rq_yielded) = rq_data.result[1]
            /\ \A k \in 1..Len(rq_yielded) : rq_yielded[k].result = <<k>>

(***************************************************************************)
(* Part 9.  AreaOfStudy.load, degreepath/area.py.  A specification is      *)
(* written as the set of the keys of its root, the specifications of its   *)
(* emphases, and whether the steps between reading "result" and the check  *)
(* of the keys (load_rule, the unused requirements, the limit, the         *)
(* multicountable rules) go through.                                       *)
(***************************************************************************)
\* allowed_keys
allowed_keys ==
    {"name", "type", "major", "degree", "code", "emphases", "result",
     "requirements", "limit", "attributes"}

\* The keys a root may hold: the allowed ones and two others.
SpecificationKeys == allowed_keys \cup {"requirement", "credits"}

\* The specifications of emphases: one with allowed keys only, one with
\* another key; they hold no emphases of their own.
EmphasisSpecifications ==
    { [keys |-> {"name", "result"}, emphases |-> <<>>, rest_ok |-> TRUE],
      [keys |-> {"name", "result", "credits"}, emphases |-> <<>>, rest_ok |-> TRUE] }

Specifications ==
    {sp \in [keys : SUBSET SpecificationKeys,
             emphases : SeqsUpTo(EmphasisSpecifications, MaxEmphases),
             rest_ok : BOOLEAN] :
        sp.emphases # <<>> => "emphases" \in sp.keys}

\* A variant of AreaOfStudy.load without the assertion on the keys.
RECURSIVE AreaOfStudy_load_without_key_check(_)
AreaOfStudy_load_without_key_check(specification) ==
    LET failed == {i \in 1..Len(specification.emphases) :
                    AreaOfStudy_load_without_key_check(specification.emphases[i])
                        # "AreaOfStudy"}
    IN  IF failed # {} THEN "raised in emphasis"
        ELSE IF "result" \notin specification.keys THEN "KeyError"
        ELSE IF ~specification.rest_ok THEN "raised before keys"
        ELSE "AreaOfStudy"

\* AreaOfStudy.load: "AreaOfStudy" when it returns an area, else what it
\* raised: in the load of an emphasis, KeyError for a missing "result",
\* something in the steps before the keys are looked at, or the
\* AssertionError of the keys.
RECURSIVE AreaOfStudy_load(_)
AreaOfStudy_load(specification) ==
    LET failed == {i \in 1..Len(specification.emphases) :
                    AreaOfStudy_load(specification.emphases[i]) # "AreaOfStudy"}
    IN  IF failed # {} THEN "raised in emphasis"
        ELSE IF "result" \notin specification.keys THEN "KeyError"
        ELSE IF ~specification.rest_ok THEN "raised before keys"
        ELSE IF specification.keys \ allowed_keys # {} THEN "AssertionError: keys"
        ELSE "AreaOfStudy"

LdInit ==
    /\ ld_specification \in Specifications
    /\ ld_outcome = "call"
    /\ EarlierIdle /\ PathIdle /\ ClauseIdle /\ NodeIdle /\ RqIdle /\ DriverIdle

\* AreaOfStudy.load returns an area.
LoadReturns ==
    /\ ld_outcome = "call"
    /\ AreaOfStudy_load(ld_specification) = "AreaOfStudy"
    /\ ld_outcome' = "AreaOfStudy"
    /\ UNCHANGED ld_specification
    /\ UNCHANGED <<earlierVars, pathVars, clauseVars, nodeVars, rqVars, driverVars>>

\* AreaOfStudy.load raises.
LoadRaises ==
    /\ ld_outcome = "call"
    /\ AreaOfStudy_load(ld_specification) # "AreaOfStudy"
    /\ ld_outcome' = AreaOfStudy_load(ld_specification)
    /\ UNCHANGED ld_specification
    /\ UNCHANGED <<earlierVars, pathVars, clauseVars, nodeVars, rqVars, driverVars>>

LdNext == LoadReturns \/ LoadRaises

SpecLoad == LdInit /\ [][LdNext]_vars

\* The set of recognized keys as the claim lists it.
ClaimedKeys ==
    {"name", "type", "code", "degree", "emphases", "result", "requirements",
     "limit", "attributes"}

\* C20, as claimed: load returns no area for a root with a key outside
\* {name, type, code, degree, emphases, result, requirements, limit,
\* attributes}, and does not reject the keys of a root within that set.
C20_KeysOutsideClaimedSetRejected ==
    ld_outcome # "call" =>
        /\ ~(ld_specification.keys \subseteq ClaimedKeys) => ld_outcome # "AreaOfStudy"
        /\ ld_specification.keys \subseteq ClaimedKeys => ld_outcome # "AssertionError: keys"

\* C20, amended: the same with "major" among the recognized keys.
C20_KeysOutsideAllowedSetRejected ==
    ld_outcome # "call" =>
        /\ ~(ld_specification.keys \subseteq (ClaimedKeys \cup {"major"}))
                => ld_outcome # "AreaOfStudy"
        /\ ld_specification.keys \subseteq (ClaimedKeys \cup {"major"})
                => ld_outcome # "AssertionError: keys"

\* A specification that is in order but for one unknown key at its root was
\* rejected for its keys.
C20_Witness ==
    /\ ld_outcome = "AssertionError: keys"
    /\ ld_specification.keys = {"name", "result", "requirement"}

(***************************************************************************)
(* Part 10.  The generator run of dp-common.py.                            *)
(*                                                                         *)
(* A file is "readable" or "missing" (open raises FileNotFoundError).  A   *)
(* message carries its type, the indices of the student file and the area  *)
(* file the loops of run were at when it was yielded (0: none yet), and    *)
(* the kind of exception of an ExceptionMsg.  The generator audit of       *)
(* degreepath.audit yields an EstimateMsg, then ProgressMsg, then a        *)
(* ResultMsg or a NoAuditsCompletedMsg, and may raise before it is done.   *)
(***************************************************************************)
FileStates == {"readable", "missing"}

Arguments ==
    { [student_files |-> sf, area_files |-> af, transcript_only |-> t] :
        <<sf, af, t>> \in
            { x \in SeqsUpTo(FileStates, MaxFiles) \X SeqsUpTo(FileStates, MaxFiles)
                        \X BOOLEAN :
                Len(x[1]) + Len(x[2]) <= MaxFiles } }

\* A message yielded while the loops are at the current student and area.
Message(type, ex) ==
    [type |-> type, student |-> rn_student, area |-> rn_area, ex |-> ex]

RnInit ==
    /\ rn_args \in Arguments
    /\ rn_pc = "call"
    /\ rn_student = 0
    /\ rn_area = 0
    /\ rn_audit = "idle"
    /\ rn_messages = <<>>
    /\ EarlierIdle /\ MidIdle /\ TbIdle /\ QueueIdle /\ AreaSolutionIdle /\ StateIdle /\ ErikIdle

\* No student files: NoStudentsMsg, and the generator returns.
RunNoStudents ==
    /\ rn_pc = "call"
    /\ rn_args.student_files = <<>>
    /\ rn_messages' = Append(rn_messages, Message("NoStudentsMsg", ""))
    /\ rn_pc' = "return"
    /\ UNCHANGED <<rn_args, rn_student, rn_area, rn_audit>>
    /\ UNCHANGED <<earlierVars, midVars, tbVars, queueVars, areaSolutionVars, stateVars, erikVars>>

\* The loop over args.student_files is entered.
RunCall ==
    /\ rn_pc = "call"
    /\ rn_args.student_files # <<>>
    /\ rn_pc' = "student"
    /\ rn_student' = 1
    /\ UNCHANGED <<rn_args, rn_area, rn_audit, rn_messages>>
    /\ UNCHANGED <<earlierVars, midVars, tbVars, queueVars, areaSolutionVars, stateVars, erikVars>>

\* The student file cannot be opened: ExceptionMsg, and the generator returns.
RunStudentMissing ==
    /\ rn_pc = "student"
    /\ rn_student <= Len(rn_args.student_files)
    /\ rn_args.student_files[rn_student] = "missing"
    /\ rn_messages' = Append(rn_messages, Message("ExceptionMsg", "FileNotFoundError"))
    /\ rn_pc' = "return"
    /\ UNCHANGED <<rn_args, rn_student, rn_area, rn_audit>>
    /\ UNCHANGED <<earlierVars, midVars, tbVars, queueVars, areaSolutionVars, stateVars, erikVars>>

\* transcript_only: the transcript of the first student is printed and the
\* generator returns.
RunTranscriptOnly ==
    /\ rn_pc = "student"
    /\ rn_student <= Len(rn_args.student_files)
    /\ rn_args.student_files[rn_student] = "readable"
    /\ rn_args.transcript_only
    /\ rn_pc' = "return"
    /\ UNCHANGED <<rn_args, rn_student, rn_area, rn_audit, rn_messages>>
    /\ UNCHANGED <<earlierVars, midVars, tbVars, queueVars, areaSolutionVars, stateVars, erikVars>>

\* The student is loaded and the loop over args.area_files is entered.
RunOpenStudent ==
    /\ rn_pc = "student"
    /\ rn_student <= Len(rn_args.student_files)
    /\ rn_args.student_files[rn_student] = "readable"
    /\ ~rn_args.transcript_only
    /\ rn_pc' = "area"
    /\ rn_area' = 1
    /\ UNCHANGED <<rn_args, rn_student, rn_audit, rn_messages>>
    /\ UNCHANGED <<earlierVars, midVars, tbVars, queueVars, areaSolutionVars, stateVars, erikVars>>

\* The area file cannot be opened: ExceptionMsg, and the generator returns.
RunAreaMissing ==
    /\ rn_pc = "area"
    /\ rn_area <= Len(rn_args.area_files)
    /\ rn_args.area_files[rn_area] = "missing"
    /\ rn_messages' = Append(rn_messages, Message("ExceptionMsg", "FileNotFoundError"))
    /\ rn_pc' = "return"
    /\ UNCHANGED <<rn_args, rn_student, rn_area, rn_audit>>
    /\ UNCHANGED <<earlierVars, midVars, tbVars, queueVars, areaSolutionVars, stateVars, erikVars>>

\* The area is loaded, but AuditStartMsg is not yielded before the audit.
RunAuditStart_without_message ==
    /\ rn_pc = "area"
    /\ rn_area <= Len(rn_args.area_files)
    /\ rn_args.area_files[rn_area] = "readable"
    /\ rn_pc' = "audit"
    /\ rn_audit' = "begin"
    /\ UNCHANGED <<rn_args, rn_student, rn_area, rn_messages>>
    /\ UNCHANGED <<earlierVars, midVars, tbVars, queueVars, areaSolutionVars, stateVars, erikVars>>

\* The area is loaded: AuditStartMsg, and run delegates to audit.
RunAuditStart ==
    /\ rn_pc = "area"
    /\ rn_area <= Len(rn_args.area_files)
    /\ rn_args.area_files[rn_area] = "readable"
    /\ rn_messages' = Append(rn_messages, Message("AuditStartMsg", ""))
    /\ rn_pc' = "audit"
    /\ rn_audit' = "begin"
    /\ UNCHANGED <<rn_args, rn_student, rn_area>>
    /\ UNCHANGED <<earlierVars, midVars, tbVars, queueVars, areaSolutionVars, stateVars, erikVars>>

\* audit yields its estimate.
AuditYieldsEstimate ==
    /\ rn_pc = "audit"
    /\ rn_audit = "begin"
    /\ rn_messages' = Append(rn_messages, Message("EstimateMsg", ""))
    /\ rn_audit' = "estimated"
    /\ UNCHANGED <<rn_args, rn_pc, rn_student, rn_area>>
    /\ UNCHANGED <<earlierVars, midVars, tbVars, queueVars, areaSolutionVars, stateVars, erikVars>>

\* audit yields a progress report.
AuditYieldsProgress ==
    /\ rn_pc = "audit"
    /\ rn_audit = "estimated"
    /\ rn_messages' = Append(rn_messages, Message("ProgressMsg", ""))
    /\ rn_audit' = "iterating"
    /\ UNCHANGED <<rn_args, rn_pc, rn_student, rn_area>>
    /\ UNCHANGED <<earlierVars, midVars, tbVars, queueVars, areaSolutionVars, stateVars, erikVars>>

\* audit yields its last message: the result, or that no audit completed.
AuditYieldsLast ==
    /\ rn_pc = "audit"
    /\ rn_audit \in {"estimated", "iterating"}
    /\ \E type \in {"ResultMsg", "NoAuditsCompletedMsg"} :
            rn_messages' = Append(rn_messages, Message(type, ""))
    /\ rn_audit' = "finished"
    /\ UNCHANGED <<rn_args, rn_pc, rn_student, rn_area>>
    /\ UNCHANGED <<earlierVars, midVars, tbVars, queueVars, areaSolutionVars, stateVars, erikVars>>

\* audit is exhausted: the loop goes on to the next area file.
AuditReturns ==
    /\ rn_pc = "audit"
    /\ rn_audit = "finished"
    /\ rn_pc' = "area"
    /\ rn_area' = rn_area + 1
    /\ rn_audit' = "idle"
    /\ UNCHANGED <<rn_args, rn_student, rn_messages>>
    /\ UNCHANGED <<earlierVars, midVars, tbVars, queueVars, areaSolutionVars, stateVars, erikVars>>

\* audit raises: ExceptionMsg, and the loop goes on to the next area file.
RunAuditException ==
    /\ rn_pc = "audit"
    /\ rn_audit # "finished"
    /\ rn_messages' = Append(rn_messages, Message("ExceptionMsg", "Exception"))
    /\ rn_pc' = "area"
    /\ rn_area' = rn_area + 1
    /\ rn_audit' = "idle"
    /\ UNCHANGED <<rn_args, rn_student>>
    /\ UNCHANGED <<earlierVars, midVars, tbVars, queueVars, areaSolutionVars, stateVars, erikVars>>

\* The area files are exhausted: the loop goes on to the next student file.
RunNextStudent ==
    /\ rn_pc = "area"
    /\ rn_area > Len(rn_args.area_files)
    /\ rn_pc' = "student"
    /\ rn_student' = rn_student + 1
    /\ rn_area' = 0
    /\ UNCHANGED <<rn_args, rn_audit, rn_messages>>
    /\ UNCHANGED <<earlierVars, midVars, tbVars, queueVars, areaSolutionVars, stateVars, erikVars>>

\* The student files are exhausted: the generator returns.
RunReturn ==
    /\ rn_pc = "student"
    /\ rn_student > Len(rn_args.student_files)
    /\ rn_pc' = "return"
    /\ UNCHANGED <<rn_args, rn_student, rn_area, rn_audit, rn_messages>>
    /\ UNCHANGED <<earlierVars, midVars, tbVars, queueVars, areaSolutionVars, stateVars, erikVars>>

RnNext ==
    \/ RunNoStudents
    \/ RunCall
    \/ RunStudentMissing
    \/ RunTranscriptOnly
    \/ RunOpenStudent
    \/ RunAreaMissing
    \/ RunAuditStart
    \/ AuditYieldsEstimate
    \/ AuditYieldsProgress
    \/ AuditYieldsLast
    \/ AuditReturns
    \/ RunAuditException
    \/ RunNextStudent
    \/ RunReturn

SpecRun == RnInit /\ [][RnNext]_vars

\* The positions in rn_messages of the AuditStartMsg of a student and an area.
StartsOf(s, a) ==
    { i \in DOMAIN rn_messages :
        /\ rn_messages[i].type = "AuditStartMsg"
        /\ rn_messages[i].student = s
        /\ rn_messages[i].area = a }

\* C21: when run has returned (and was not asked for the transcript only),
\* the audit of every student file and area file that can be opened has been
\* started, whatever failed in the other audits.
C21_FailuresConfined ==
    rn_pc = "return" /\ ~rn_args.transcript_only =>
        \A s \in DOMAIN rn_args.student_files, a \in DOMAIN rn_args.area_files :
            rn_args.student_files[s] = "readable" /\ rn_args.area_files[a] = "readable"
                => StartsOf(s, a) # {}

\* The messages that belong to an audit: those the generator audit yields, and
\* the ExceptionMsg of what it raised.
OfAudit(m) ==
    \/ m.type \in {"EstimateMsg", "ProgressMsg", "ResultMsg", "NoAuditsCompletedMsg"}
    \/ m.type = "ExceptionMsg" /\ m.ex = "Exception"

\* C22: no student and area have two AuditStartMsg, and every message of an
\* audit comes after the AuditStartMsg of its student and area.
C22_AuditStartFirst ==
    /\ \A s \in DOMAIN rn_args.student_files, a \in DOMAIN rn_args.area_files :
            Cardinality(StartsOf(s, a)) <= 1
    /\ \A i \in DOMAIN rn_messages :
            OfAudit(rn_messages[i]) =>
                \E j \in StartsOf(rn_messages[i].student, rn_messages[i].area) : j < i

\* Two audits were started; the first raised after its estimate and the
\* second went on to its result.
C22_Witness ==
    /\ Len(rn_messages) >= 6
    /\ rn_messages[3].type = "ExceptionMsg" /\ rn_messages[3].ex = "Exception"
    /\ rn_messages[4].type = "AuditStartMsg"
    /\ rn_messages[Len(rn_messages)].type = "ResultMsg"

(***************************************************************************)
(* Part 11.  audit of testbed.py from start_time on, and what baseline     *)
(* does with its future.                                                   *)
(*                                                                         *)
(* run audits one student against one area: AuditStartMsg, EstimateMsg,    *)
(* ProgressMsg, and then one of ResultMsg, NoAuditsCompletedMsg,           *)
(* ExceptionMsg.  Time passes between the messages.                        *)
(***************************************************************************)
Timeouts == {<<>>} \cup { <<t>> : t \in 0..MaxTimeout }

\* The types run may yield next, after the messages in received.
NextTypes(received) ==
    IF received = <<>> THEN {"AuditStartMsg"}
    ELSE LET last == received[Len(received)].type IN
         CASE last = "AuditStartMsg" -> {"EstimateMsg", "ExceptionMsg"}
           [] last \in {"EstimateMsg", "ProgressMsg"} ->
                (IF Len(received) + 1 < MaxMessages THEN {"ProgressMsg"} ELSE {})
                    \cup {"ResultMsg", "NoAuditsCompletedMsg", "ExceptionMsg"}
           [] OTHER -> {}

\* `timeout and time.perf_counter() - start_time >= timeout`
timed_out(timeout, elapsed) ==
    timeout # <<>> /\ timeout[1] # 0 /\ elapsed >= timeout[1]

\* The body of `for message in run(args)`: what it does with a message.
audit_loop(type) ==
    IF type = "ResultMsg" THEN "dict"
    ELSE IF timed_out(tb_timeout, tb_clock) THEN "TimeoutError"
    ELSE "running"

TbInit ==
    /\ tb_timeout \in Timeouts
    /\ tb_clock = 0
    /\ tb_pc = "run"
    /\ tb_received = <<>>
    /\ tb_outcome = "running"
    /\ tb_tables = {"baseline_ip"}
    /\ EarlierIdle /\ MidIdle /\ RunIdle /\ QueueIdle /\ AreaSolutionIdle /\ StateIdle /\ ErikIdle

\* A second passes while run works on its next message.
TbTick ==
    /\ tb_pc = "run"
    /\ tb_clock < MaxClock
    /\ tb_clock' = tb_clock + 1
    /\ UNCHANGED <<tb_timeout, tb_pc, tb_received, tb_outcome, tb_tables>>
    /\ UNCHANGED <<earlierVars, midVars, runVars, queueVars, areaSolutionVars, stateVars, erikVars>>

\* run yields a message and the body of the loop runs on it.
TbReceive ==
    /\ tb_pc = "run"
    /\ \E type \in NextTypes(tb_received) :
        /\ tb_received' = Append(tb_received, [type |-> type, at |-> tb_clock])
        /\ tb_outcome' = audit_loop(type)
        /\ tb_pc' = IF audit_loop(type) = "running" THEN "run" ELSE "done"
    /\ UNCHANGED <<tb_timeout, tb_clock, tb_tables>>
    /\ UNCHANGED <<earlierVars, midVars, runVars, queueVars, areaSolutionVars, stateVars, erikVars>>

\* run is exhausted: audit returns None.
TbExhausted ==
    /\ tb_pc = "run"
    /\ tb_received # <<>>
    /\ NextTypes(tb_received) = {}
    /\ tb_outcome' = "None"
    /\ tb_pc' = "done"
    /\ UNCHANGED <<tb_timeout, tb_clock, tb_received, tb_tables>>
    /\ UNCHANGED <<earlierVars, midVars, runVars, queueVars, areaSolutionVars, stateVars, erikVars>>

\* baseline takes the result of the future: a dict goes into baseline, a
\* TimeoutError removes the row of baseline_ip, None fails the assertion.
TbCollect ==
    /\ tb_pc = "done"
    /\ tb_tables' = CASE tb_outcome = "dict" -> {"baseline"}
                      [] tb_outcome = "TimeoutError" -> {}
                      [] OTHER -> tb_tables
    /\ tb_pc' = "collected"
    /\ UNCHANGED <<tb_timeout, tb_clock, tb_received, tb_outcome>>
    /\ UNCHANGED <<earlierVars, midVars, runVars, queueVars, areaSolutionVars, stateVars, erikVars>>

TbNext == TbTick \/ TbReceive \/ TbExhausted \/ TbCollect

SpecTestbed == TbInit /\ [][TbNext]_vars

\* A timeout was given to audit (None and 0 are none) and has elapsed at
\* this time.
Elapsed(at) == tb_timeout \notin {<<>>, <<0>>} /\ at >= tb_timeout[1]

\* C23: a message taken from run once the timeout has elapsed is the last
\* one taken and ends the audit with TimeoutError, so that no result is
\* returned and no row reaches the table baseline.
C23_NoResultAfterTimeout ==
    \A i \in DOMAIN tb_received :
        Elapsed(tb_received[i].at) =>
            /\ i = Len(tb_received)
            /\ tb_outcome = "TimeoutError"
            /\ "baseline" \notin tb_tables

(***************************************************************************)
(* Part 12.  worker and process_queue of dp/server/__main__.py.            *)
(*                                                                         *)
(* A row of public.queue is "absent" (not inserted yet), "queued",         *)
(* "locked" (deleted by a transaction that is still open, so that SKIP     *)
(* LOCKED passes over it) or "deleted" (the deletion is committed).  Rows  *)
(* are numbered in the order of their ts and have the same priority.       *)
(* Every insertion notifies the channel dp_queue_update; the database      *)
(* delivers a notification to the connections that have executed LISTEN.   *)
(* A select that times out changes nothing and is a stuttering step.       *)
(***************************************************************************)
Workers == 1..MaxWorkers
Rows == 1..MaxRows

\* The rows the subquery `SELECT id ... FOR UPDATE SKIP LOCKED` can return.
Available == { r \in Rows : q_table[r] = "queued" }

\* ORDER BY priority DESC, ts ... LIMIT 1
first_by_ts(rows) == CHOOSE r \in rows : \A x \in rows : r <= x

QInit ==
    /\ \E n \in 0..MaxRows :
            q_table = [r \in Rows |-> IF r <= n THEN "queued" ELSE "absent"]
    /\ q_held = [w \in Workers |-> 0]
    /\ q_pc = [w \in Workers |-> "fetch"]
    /\ q_listening = [w \in Workers |-> FALSE]
    /\ q_notifies = [w \in Workers |-> 0]
    /\ q_audits = [r \in Rows |-> <<>>]
    /\ EarlierIdle /\ MidIdle /\ RunIdle /\ TbIdle /\ AreaSolutionIdle /\ StateIdle /\ ErikIdle

\* Some client inserts the next row; the listening connections are notified.
Insert ==
    /\ \E r \in Rows :
        /\ q_table[r] = "absent"
        /\ \A x \in Rows : x < r => q_table[x] # "absent"
        /\ q_table' = [q_table EXCEPT ![r] = "queued"]
    /\ q_notifies' = [w \in Workers |->
                        IF q_listening[w] THEN q_notifies[w] + 1 ELSE q_notifies[w]]
    /\ UNCHANGED <<q_held, q_pc, q_listening, q_audits>>
    /\ UNCHANGED <<earlierVars, midVars, runVars, tbVars, areaSolutionVars, stateVars, erikVars>>

\* The DELETE takes a row whether or not another transaction has locked it.
FetchRow_ignoring_locks(w) ==
    /\ q_pc[w] = "fetch"
    /\ \E r \in { x \in Rows : q_table[x] \in {"queued", "locked"} } :
        /\ q_table' = [q_table EXCEPT ![r] = "locked"]
        /\ q_held' = [q_held EXCEPT ![w] = r]
        /\ q_audits' = [q_audits EXCEPT ![r] =
                            Append(@, [worker |-> w, outcome |-> "running"])]
    /\ q_pc' = [q_pc EXCEPT ![w] = "audit"]
    /\ UNCHANGED <<q_listening, q_notifies>>
    /\ UNCHANGED <<earlierVars, midVars, runVars, tbVars, areaSolutionVars, stateVars, erikVars>>

\* process_queue: BEGIN, the DELETE returns a row, and `single` is called on it.
FetchRow(w) ==
    /\ q_pc[w] = "fetch"
    /\ Available # {}
    /\ LET r == first_by_ts(Available) IN
        /\ q_table' = [q_table EXCEPT ![r] = "locked"]
        /\ q_held' = [q_held EXCEPT ![w] = r]
        /\ q_audits' = [q_audits EXCEPT ![r] =
                            Append(@, [worker |-> w, outcome |-> "running"])]
    /\ q_pc' = [q_pc EXCEPT ![w] = "audit"]
    /\ UNCHANGED <<q_listening, q_notifies>>
    /\ UNCHANGED <<earlierVars, midVars, runVars, tbVars, areaSolutionVars, stateVars, erikVars>>

\* process_queue returns after one look at the queue, whatever it holds.
FetchNone_whatever_is_queued(w) ==
    /\ q_pc[w] = "fetch"
    /\ q_pc' = [q_pc EXCEPT ![w] = IF q_listening[w] THEN "notified" ELSE "listen"]
    /\ UNCHANGED <<q_table, q_held, q_listening, q_notifies, q_audits>>
    /\ UNCHANGED <<earlierVars, midVars, runVars, tbVars, areaSolutionVars, stateVars, erikVars>>

\* process_queue: BEGIN, the DELETE returns no row, COMMIT, break.  The
\* worker goes on to LISTEN after the first drain and to the loop over
\* conn.notifies otherwise.
FetchNone(w) ==
    /\ q_pc[w] = "fetch"
    /\ Available = {}
    /\ q_pc' = [q_pc EXCEPT ![w] = IF q_listening[w] THEN "notified" ELSE "listen"]
    /\ UNCHANGED <<q_table, q_held, q_listening, q_notifies, q_audits>>
    /\ UNCHANGED <<earlierVars, midVars, runVars, tbVars, areaSolutionVars, stateVars, erikVars>>

\* What the end of a call of `single` leaves of its record.
ended(audits, outcome) ==
    [audits EXCEPT ![Len(audits)].outcome = outcome]

\* process_queue: `single` returns, COMMIT, and the loop goes on.
SingleReturns(w) ==
    /\ q_pc[w] = "audit"
    /\ q_table' = [q_table EXCEPT ![q_held[w]] = "deleted"]
    /\ q_audits' = [q_audits EXCEPT ![q_held[w]] = ended(@, "returned")]
    /\ q_held' = [q_held EXCEPT ![w] = 0]
    /\ q_pc' = [q_pc EXCEPT ![w] = "fetch"]
    /\ UNCHANGED <<q_listening, q_notifies>>
    /\ UNCHANGED <<earlierVars, midVars, runVars, tbVars, areaSolutionVars, stateVars, erikVars>>

\* The handler rolls the deletion back instead of committing it.
SingleRaises_rolling_back(w) ==
    /\ q_pc[w] = "audit"
    /\ q_table' = [q_table EXCEPT ![q_held[w]] = "queued"]
    /\ q_audits' = [q_audits EXCEPT ![q_held[w]] = ended(@, "raised")]
    /\ q_held' = [q_held EXCEPT ![w] = 0]
    /\ q_pc' = [q_pc EXCEPT ![w] = "fetch"]
    /\ UNCHANGED <<q_listening, q_notifies>>
    /\ UNCHANGED <<earlierVars, midVars, runVars, tbVars, areaSolutionVars, stateVars, erikVars>>

\* process_queue: `single` raises an Exception, COMMIT in the handler, and
\* the loop goes on.
SingleRaises(w) ==
    /\ q_pc[w] = "audit"
    /\ q_table' = [q_table EXCEPT ![q_held[w]] = "deleted"]
    /\ q_audits' = [q_audits EXCEPT ![q_held[w]] = ended(@, "raised")]
    /\ q_held' = [q_held EXCEPT ![w] = 0]
    /\ q_pc' = [q_pc EXCEPT ![w] = "fetch"]
    /\ UNCHANGED <<q_listening, q_notifies>>
    /\ UNCHANGED <<earlierVars, midVars, runVars, tbVars, areaSolutionVars, stateVars, erikVars>>

\* worker: the first process_queue has returned; LISTEN dp_queue_update.
Listen(w) ==
    /\ q_pc[w] = "listen"
    /\ q_listening' = [q_listening EXCEPT ![w] = TRUE]
    /\ q_pc' = [q_pc EXCEPT ![w] = "select"]
    /\ UNCHANGED <<q_table, q_held, q_notifies, q_audits>>
    /\ UNCHANGED <<earlierVars, midVars, runVars, tbVars, areaSolutionVars, stateVars, erikVars>>

\* worker: select finds the connection readable, conn.poll().
Poll(w) ==
    /\ q_pc[w] = "select"
    /\ q_notifies[w] > 0
    /\ q_pc' = [q_pc EXCEPT ![w] = "notified"]
    /\ UNCHANGED <<q_table, q_held, q_listening, q_notifies, q_audits>>
    /\ UNCHANGED <<earlierVars, midVars, runVars, tbVars, areaSolutionVars, stateVars, erikVars>>

\* worker: a notification is popped and process_queue is called.
PopNotify(w) ==
    /\ q_pc[w] = "notified"
    /\ q_notifies[w] > 0
    /\ q_notifies' = [q_notifies EXCEPT ![w] = @ - 1]
    /\ q_pc' = [q_pc EXCEPT ![w] = "fetch"]
    /\ UNCHANGED <<q_table, q_held, q_listening, q_audits>>
    /\ UNCHANGED <<earlierVars, midVars, runVars, tbVars, areaSolutionVars, stateVars, erikVars>>

\* worker: conn.notifies is empty, back to select.
NotifiesEmpty(w) ==
    /\ q_pc[w] = "notified"
    /\ q_notifies[w] = 0
    /\ q_pc' = [q_pc EXCEPT ![w] = "select"]
    /\ UNCHANGED <<q_table, q_held, q_listening, q_notifies, q_audits>>
    /\ UNCHANGED <<earlierVars, midVars, runVars, tbVars, areaSolutionVars, stateVars, erikVars>>

\* The steps of one worker.
WorkerStep(w) ==
    \/ FetchRow(w)
    \/ FetchNone(w)
    \/ SingleReturns(w)
    \/ SingleRaises(w)
    \/ Listen(w)
    \/ Poll(w)
    \/ PopNotify(w)
    \/ NotifiesEmpty(w)

QNext ==
    \/ Insert
    \/ \E w \in Workers : FetchRow(w)
    \/ \E w \in Workers : FetchNone(w)
    \/ \E w \in Workers : SingleReturns(w)
    \/ \E w \in Workers : SingleRaises(w)
    \/ \E w \in Workers : Listen(w)
    \/ \E w \in Workers : Poll(w)
    \/ \E w \in Workers : PopNotify(w)
    \/ \E w \in Workers : NotifiesEmpty(w)

SpecWorkers == QInit /\ [][QNext]_vars

\* The workers run on: no worker stops for good while it has a step to take,
\* and every call of `single` ends.  Nothing is assumed of the clients that
\* insert rows.
SpecWorkersFair == SpecWorkers /\ \A w \in Workers : WF_vars(WorkerStep(w))

\* The calls of `single` on a row that a worker made.
AuditsBy(w, r) == { i \in DOMAIN q_audits[r] : q_audits[r][i].worker = w }

\* The rows with a call of `single` that raised.
RaisedRows(audits) ==
    { r \in Rows : \E i \in DOMAIN audits[r] : audits[r][i].outcome = "raised" }

\* C24: the step in which a worker's audit raises commits the deletion of
\* its row and leaves the worker at the head of the loop of process_queue,
\* and a row whose audit raised is handed to the audit once only.
C24_RaisingItemRemoved ==
    [][ /\ \A w \in Workers :
                q_pc[w] = "audit" /\ q_held[w] \in RaisedRows(q_audits') =>
                    /\ q_table'[q_held[w]] = "deleted"
                    /\ q_pc'[w] = "fetch"
        /\ \A r \in RaisedRows(q_audits') : Len(q_audits'[r]) = 1
      ]_vars

\* The audit of the first row raised, its deletion is committed, and the
\* same worker went on to audit the second row.
C24_Witness ==
    \E w \in Workers :
        /\ q_audits[1] = <<[worker |-> w, outcome |-> "raised"]>>
        /\ q_table[1] = "deleted"
        /\ q_audits[2] = <<[worker |-> w, outcome |-> "returned"]>>

\* C25: process_queue returns only from a look at the queue that found no
\* row available, and when it fetches a row, every row it fetched before
\* has had its audit ended and its deletion committed.
C25_LoopsUntilEmpty ==
    [][ \A w \in Workers :
            /\ q_pc[w] = "fetch" /\ q_pc'[w] \in {"listen", "notified"} => Available = {}
            /\ q_pc[w] = "fetch" /\ q_pc'[w] = "audit" =>
                    \A r \in Rows : \A i \in AuditsBy(w, r) :
                        /\ q_audits[r][i].outcome \in {"returned", "raised"}
                        /\ q_table[r] = "deleted"
      ]_vars

\* A worker has audited two rows in one call of process_queue and returned
\* from it.
C25_Witness ==
    \E w \in Workers :
        /\ q_pc[w] = "listen"
        /\ AuditsBy(w, 1) # {} /\ AuditsBy(w, 2) # {}
        /\ Available = {}

\* C27: no row is handed to the audit twice; a row that is locked is held
\* by the one worker that is auditing it; and a row whose deletion is
\* committed has been audited, to the end, by a worker.
C27_OneWorkerPerRow ==
    \A r \in Rows :
        /\ Len(q_audits[r]) <= 1
        /\ q_table[r] = "locked" =>
                /\ Cardinality({ w \in Workers : q_held[w] = r }) = 1
                /\ \E w \in Workers :
                        q_held[w] = r /\ q_audits[r] = <<[worker |-> w, outcome |-> "running"]>>
        /\ q_table[r] = "deleted" =>
                /\ Len(q_audits[r]) = 1
                /\ q_audits[r][1].outcome \in {"returned", "raised"}
        /\ q_table[r] \in {"absent", "queued"} => q_audits[r] = <<>>

\* Two workers audited a row each, at the same time.
C27_Witness ==
    \E w1, w2 \in Workers :
        /\ w1 # w2
        /\ q_held[w1] = 1 /\ q_pc[w1] = "audit"
        /\ q_held[w2] = 2 /\ q_pc[w2] = "audit"

\* C28: under SpecWorkersFair, every row that is in the queue has its
\* deletion committed later on, whether or not another row is inserted.
C28_EveryRowDequeued ==
    \A r \in Rows : (q_table[r] = "queued") ~> (q_table[r] = "deleted")

(***************************************************************************)
(* Part 13.  AreaSolution.audit, degreepath/area.py.                       *)
(*                                                                         *)
(* A result is a record of its type, its name, its items and its count; a  *)
(* result that is not a CountResult has no items and a count of 0.         *)
(* find_best_solution finds a result for each of the common rules, as the  *)
(* assertions of audit_common_major_requirements expect.                   *)
(***************************************************************************)
Leaf(type, name) == [type |-> type, name |-> name, items |-> <<>>, count |-> 0]

\* The results the items of an audited root are drawn from.
ItemResults == {Leaf("RequirementResult", "Core"), Leaf("CourseResult", "MATH 101")}

\* The results self.solution.audit may return for the root of an area.
RootResults ==
    { [type |-> "CountResult", name |-> "", items |-> items, count |-> count] :
        <<items, count>> \in
            { x \in SeqsUpTo(ItemResults, MaxItems) \X (0..MaxItems) : x[2] <= Len(x[1]) } }
    \cup {Leaf("RequirementResult", "Major"), Leaf("CourseResult", "MATH 101")}

Areas ==
    [kind : {"major", "concentration", "emphasis", "degree"}, degree : {"B.A.", "B.M."}]

\* prepare_common_rules: the requirements common to the majors of a degree;
\* a B.M. major has no "Credits outside the major".
prepare_common_rules(degree) ==
    <<"Credits at a C or higher", "Credits taken S/U">>
        \o (IF degree = "B.M." THEN <<>> ELSE <<"Credits outside the major">>)

\* The RequirementResult audit_common_major_requirements returns: its result
\* is a CountResult of the best solution of each common rule.
audit_common_major_requirements(area) ==
    LET rules == prepare_common_rules(area.degree) IN
    [type |-> "RequirementResult",
     name |-> "Common " \o area.degree \o " Major Requirements",
     items |-> [i \in DOMAIN rules |-> Leaf("RequirementResult", rules[i])],
     count |-> Len(rules)]

raised(exception) == [raises |-> exception, result |-> Leaf("None", "")]
returned(result) == [raises |-> "", result |-> result]

\* The common requirements are appended and the count is left as it was.
AreaSolution_audit_count_kept(area, result) ==
    IF area.kind = "major"
    THEN IF result.type # "CountResult"
         THEN raised("TypeError")
         ELSE returned([result EXCEPT
                  !.items = Append(@, audit_common_major_requirements(area))])
    ELSE returned(result)

\* AreaSolution.audit, from the audited result of the solution on.
AreaSolution_audit(area, result) ==
    IF area.kind = "major"
    THEN IF result.type # "CountResult"
         THEN raised("TypeError")
         ELSE returned([result EXCEPT
                  !.items = Append(@, audit_common_major_requirements(area)),
                  !.count = @ + 1])
    ELSE returned(result)

AsInit ==
    /\ as_area \in Areas
    /\ as_result \in RootResults
    /\ as_pc = "call"
    /\ as_outcome = raised("")
    /\ EarlierIdle /\ MidIdle /\ RunIdle /\ TbIdle /\ QueueIdle /\ StateIdle /\ ErikIdle

AuditAreaSolution ==
    /\ as_pc = "call"
    /\ as_outcome' = AreaSolution_audit(as_area, as_result)
    /\ as_pc' = "done"
    /\ UNCHANGED <<as_area, as_result>>
    /\ UNCHANGED <<earlierVars, midVars, runVars, tbVars, queueVars, stateVars, erikVars>>

AsNext == AuditAreaSolution

SpecAreaSolution == AsInit /\ [][AsNext]_vars

\* A Common Requirements result: the requirement of that name over the
\* count of the common rules.
IsCommonRequirements(result) ==
    /\ result.type = "RequirementResult"
    /\ result.name \in {"Common B.A. Major Requirements", "Common B.M. Major Requirements"}

\* C26: for a major with a Count root, the root returned holds the audited
\* items followed by one Common Requirements result, and its count is one
\* more; for a major with another root, TypeError; for another kind of area
\* the audited result is returned as it is.
C26_CommonRequirementsAppended ==
    as_pc = "done" =>
        /\ as_area.kind = "major" /\ as_result.type = "CountResult" =>
            /\ as_outcome.raises = ""
            /\ as_outcome.result.type = "CountResult"
            /\ Len(as_outcome.result.items) = Len(as_result.items) + 1
            /\ SubSeq(as_outcome.result.items, 1, Len(as_result.items)) = as_result.items
            /\ Cardinality({ i \in DOMAIN as_outcome.result.items :
                    IsCommonRequirements(as_outcome.result.items[i]) }) = 1
            /\ IsCommonRequirements(as_outcome.result.items[Len(as_outcome.result.items)])
            /\ as_outcome.result.count = as_result.count + 1
        /\ as_area.kind = "major" /\ as_result.type # "CountResult" =>
            as_outcome.raises = "TypeError"
        /\ as_area.kind # "major" => as_outcome = returned(as_result)

\* A B.A. major with two audited items, both needed, was audited.
C26_Witness ==
    /\ as_pc = "done"
    /\ as_area = [kind |-> "major", degree |-> "B.A."]
    /\ Len(as_result.items) = 2 /\ as_result.count = 2
    /\ as_outcome.result.count = 3
    /\ Len(as_outcome.result.items[3].items) = 3

(***************************************************************************)
(* Part 14.  RequirementState of degreepath/requirement.py.                *)
(*                                                                         *)
(* An iterator that iter_solutions returned is at one of these stages:     *)
(*   "vals"      chain(self.vals, ...) is in its list iterator over vals   *)
(*   "list"      iter(self.vals), returned when done was set               *)
(*   "gen"       chain(...) is in the generator _gen_iter                  *)
(*   "exhausted" it has raised StopIteration                               *)
(*   "abandoned" its consumer has dropped it                               *)
(* A list iterator sees what is appended to the list until it is           *)
(* exhausted; all the generators take from the one self.iter.              *)
(***************************************************************************)
Sources == { [i \in 1..n |-> i] : n \in 0..MaxElements }

RsInit ==
    /\ rs_source \in Sources
    /\ rs_iter = 0
    /\ rs_done = FALSE
    /\ rs_vals = <<>>
    /\ rs_iterators = <<>>
    /\ EarlierIdle /\ MidIdle /\ RunIdle /\ TbIdle /\ QueueIdle /\ AreaSolutionIdle /\ ErikIdle

\* iter_solutions()
IterSolutions ==
    /\ Len(rs_iterators) < MaxIterators
    /\ rs_iterators' = Append(rs_iterators,
            [stage |-> IF rs_done THEN "list" ELSE "vals", index |-> 0, yielded |-> <<>>])
    /\ UNCHANGED <<rs_source, rs_iter, rs_done, rs_vals>>
    /\ UNCHANGED <<earlierVars, midVars, runVars, tbVars, queueVars, areaSolutionVars, erikVars>>

\* next() of an iterator whose list iterator has an element of vals to yield.
NextFromVals(k) ==
    /\ rs_iterators[k].stage \in {"vals", "list"}
    /\ rs_iterators[k].index < Len(rs_vals)
    /\ rs_iterators' = [rs_iterators EXCEPT
            ![k].index = @ + 1,
            ![k].yielded = Append(@, rs_vals[rs_iterators[k].index + 1])]
    /\ UNCHANGED <<rs_source, rs_iter, rs_done, rs_vals>>
    /\ UNCHANGED <<earlierVars, midVars, runVars, tbVars, queueVars, areaSolutionVars, erikVars>>

\* next() of iter(self.vals) at the end of vals: StopIteration.
NextListEnds(k) ==
    /\ rs_iterators[k].stage = "list"
    /\ rs_iterators[k].index >= Len(rs_vals)
    /\ rs_iterators' = [rs_iterators EXCEPT ![k].stage = "exhausted"]
    /\ UNCHANGED <<rs_source, rs_iter, rs_done, rs_vals>>
    /\ UNCHANGED <<earlierVars, midVars, runVars, tbVars, queueVars, areaSolutionVars, erikVars>>

\* The iterator is in _gen_iter, or enters it with this next(): its list
\* iterator is at the end of vals.
InGenIter(k) ==
    \/ rs_iterators[k].stage = "gen"
    \/ rs_iterators[k].stage = "vals" /\ rs_iterators[k].index >= Len(rs_vals)

\* next() in _gen_iter: self.iter has an element; it is appended and yielded.
NextFromIter(k) ==
    /\ InGenIter(k)
    /\ rs_iter < Len(rs_source)
    /\ rs_iter' = rs_iter + 1
    /\ rs_vals' = Append(rs_vals, rs_source[rs_iter + 1])
    /\ rs_iterators' = [rs_iterators EXCEPT
            ![k].stage = "gen",
            ![k].yielded = Append(@, rs_source[rs_iter + 1])]
    /\ UNCHANGED <<rs_source, rs_done>>
    /\ UNCHANGED <<earlierVars, midVars, runVars, tbVars, queueVars, areaSolutionVars, erikVars>>

\* next() in _gen_iter: self.iter is exhausted; done is set, StopIteration.
NextIterEnds(k) ==
    /\ InGenIter(k)
    /\ rs_iter >= Len(rs_source)
    /\ rs_done' = TRUE
    /\ rs_iterators' = [rs_iterators EXCEPT ![k].stage = "exhausted"]
    /\ UNCHANGED <<rs_source, rs_iter, rs_vals>>
    /\ UNCHANGED <<earlierVars, midVars, runVars, tbVars, queueVars, areaSolutionVars, erikVars>>

\* The consumer drops the iterator before its end.
Abandon(k) ==
    /\ rs_iterators[k].stage \in {"vals", "list", "gen"}
    /\ rs_iterators' = [rs_iterators EXCEPT ![k].stage = "abandoned"]
    /\ UNCHANGED <<rs_source, rs_iter, rs_done, rs_vals>>
    /\ UNCHANGED <<earlierVars, midVars, runVars, tbVars, queueVars, areaSolutionVars, erikVars>>

RsNext ==
    \/ IterSolutions
    \/ \E k \in DOMAIN rs_iterators : NextFromVals(k)
    \/ \E k \in DOMAIN rs_iterators : NextListEnds(k)
    \/ \E k \in DOMAIN rs_iterators : NextFromIter(k)
    \/ \E k \in DOMAIN rs_iterators : NextIterEnds(k)
    \/ \E k \in DOMAIN rs_iterators : Abandon(k)

SpecState == RsInit /\ [][RsNext]_vars

IsPrefix(s, t) == Len(s) <= Len(t) /\ s = SubSeq(t, 1, Len(s))

\* C29: what an iterator has yielded is a prefix of the sequence of the
\* iterable (each element once, in order), the whole of it once the iterator
\* is exhausted; and vals is the prefix of the elements taken from the
\* iterable so far.
C29_EveryIteratorComplete ==
    /\ \A k \in DOMAIN rs_iterators :
        /\ IsPrefix(rs_iterators[k].yielded, rs_source)
        /\ rs_iterators[k].stage = "exhausted" => rs_iterators[k].yielded = rs_source
    /\ rs_vals = SubSeq(rs_source, 1, rs_iter)

(***************************************************************************)
(* Part 15.  main of dp-erik.py on the messages of run.                    *)
(*                                                                         *)
(* main gives run one student file and one area file.  Each action is one  *)
(* iteration of `for msg in run(args)`: run yields the message and the     *)
(* branch of main for its type runs.  An audit yields an EstimateMsg,      *)
(* ProgressMsg, and then a ResultMsg or a NoAuditsCompletedMsg, or raises, *)
(* which run turns into an ExceptionMsg.  The table result holds the rows   *)
(* of earlier audits, some of them of audits still running elsewhere.      *)
(***************************************************************************)
ErInit ==
    /\ er_files \in [student : FileStates, area : FileStates]
    /\ er_run = "call"
    /\ er_pc = "loop"
    /\ er_result_id = 0
    /\ \E earlier \in SeqsUpTo(BOOLEAN, MaxEarlierResults) :
            er_result = [id \in DOMAIN earlier |->
                            [in_progress |-> earlier[id], iterations |-> 0]]
    /\ er_created = {}
    /\ EarlierIdle /\ MidIdle /\ RunIdle /\ TbIdle /\ QueueIdle /\ AreaSolutionIdle /\ StateIdle

\* make_result_id: INSERT ... in_progress true, commit, the new id.
make_result_id(result) ==
    Append(result, [in_progress |-> TRUE, iterations |-> 0])

\* UPDATE result SET in_progress = false WHERE id = result_id
set_not_in_progress(result, result_id) ==
    [id \in DOMAIN result |->
        IF id = result_id THEN [result[id] EXCEPT !.in_progress = FALSE] ELSE result[id]]

\* update_progress: UPDATE result SET iterations = count WHERE id = result_id
update_progress(result, result_id, count) ==
    [id \in DOMAIN result |->
        IF id = result_id THEN [result[id] EXCEPT !.iterations = count] ELSE result[id]]

\* record: UPDATE result SET iterations = message.count, ..., in_progress =
\* false WHERE id = result_id
record(result, result_id, count) ==
    [id \in DOMAIN result |->
        IF id = result_id
        THEN [result[id] EXCEPT !.iterations = count, !.in_progress = FALSE]
        ELSE result[id]]

\* The student file or the area file cannot be opened: run yields an
\* ExceptionMsg and returns; result_id is None and no row is updated.
ErFileMissing ==
    /\ er_pc = "loop" /\ er_run = "call"
    /\ er_files.student = "missing" \/ er_files.area = "missing"
    /\ er_result' = IF er_result_id # 0
                    THEN set_not_in_progress(er_result, er_result_id) ELSE er_result
    /\ er_run' = "ended"
    /\ UNCHANGED <<er_files, er_pc, er_result_id, er_created>>
    /\ UNCHANGED <<earlierVars, midVars, runVars, tbVars, queueVars, areaSolutionVars, stateVars>>

\* AuditStartMsg: a row is inserted and result_id is its id.
ErAuditStart ==
    /\ er_pc = "loop" /\ er_run = "call"
    /\ er_files.student = "readable" /\ er_files.area = "readable"
    /\ er_result' = make_result_id(er_result)
    /\ er_result_id' = Len(er_result) + 1
    /\ er_created' = er_created \cup {Len(er_result) + 1}
    /\ er_run' = "started"
    /\ UNCHANGED <<er_files, er_pc>>
    /\ UNCHANGED <<earlierVars, midVars, runVars, tbVars, queueVars, areaSolutionVars, stateVars>>

\* EstimateMsg: no branch of main is for it; it is logged as unknown.
ErEstimate ==
    /\ er_pc = "loop" /\ er_run = "started"
    /\ er_run' = "estimated"
    /\ UNCHANGED <<er_files, er_pc, er_result_id, er_result, er_created>>
    /\ UNCHANGED <<earlierVars, midVars, runVars, tbVars, queueVars, areaSolutionVars, stateVars>>

\* ProgressMsg: update_progress.
ErProgress ==
    /\ er_pc = "loop" /\ er_run = "estimated"
    /\ er_result[er_result_id].iterations < MaxProgress
    /\ er_result' = update_progress(er_result, er_result_id,
                                    er_result[er_result_id].iterations + 1)
    /\ UNCHANGED <<er_files, er_run, er_pc, er_result_id, er_created>>
    /\ UNCHANGED <<earlierVars, midVars, runVars, tbVars, queueVars, areaSolutionVars, stateVars>>

\* ResultMsg with a result: record writes the message's count and ends the
\* row's progress.
ErResult ==
    /\ er_pc = "loop" /\ er_run = "estimated"
    /\ \E count \in 0..MaxProgress :
            er_result' = record(er_result, er_result_id, count)
    /\ er_run' = "ended"
    /\ UNCHANGED <<er_files, er_pc, er_result_id, er_created>>
    /\ UNCHANGED <<earlierVars, midVars, runVars, tbVars, queueVars, areaSolutionVars, stateVars>>

\* ResultMsg whose result is None: record raises TypeError at
\* result["claims"], and main ends with it.
ErResultNone ==
    /\ er_pc = "loop" /\ er_run = "estimated"
    /\ er_pc' = "raised"
    /\ UNCHANGED <<er_files, er_run, er_result_id, er_result, er_created>>
    /\ UNCHANGED <<earlierVars, midVars, runVars, tbVars, queueVars, areaSolutionVars, stateVars>>

\* NoAuditsCompletedMsg: it is logged.
ErNoAuditsCompleted ==
    /\ er_pc = "loop" /\ er_run = "estimated"
    /\ er_run' = "ended"
    /\ UNCHANGED <<er_files, er_pc, er_result_id, er_result, er_created>>
    /\ UNCHANGED <<earlierVars, midVars, runVars, tbVars, queueVars, areaSolutionVars, stateVars>>

\* The audit raises and run yields an ExceptionMsg: the row of result_id is
\* set to in_progress = false.
ErException ==
    /\ er_pc = "loop" /\ er_run \in {"started", "estimated"}
    /\ er_result' = IF er_result_id # 0
                    THEN set_not_in_progress(er_result, er_result_id) ELSE er_result
    /\ er_run' = "ended"
    /\ UNCHANGED <<er_files, er_pc, er_result_id, er_created>>
    /\ UNCHANGED <<earlierVars, midVars, runVars, tbVars, queueVars, areaSolutionVars, stateVars>>

\* run is exhausted: main closes the connection and returns.
ErReturn ==
    /\ er_pc = "loop" /\ er_run = "ended"
    /\ er_pc' = "returned"
    /\ UNCHANGED <<er_files, er_run, er_result_id, er_result, er_created>>
    /\ UNCHANGED <<earlierVars, midVars, runVars, tbVars, queueVars, areaSolutionVars, stateVars>>

ErNext ==
    \/ ErFileMissing
    \/ ErAuditStart
    \/ ErEstimate
    \/ ErProgress
    \/ ErResult
    \/ ErResultNone
    \/ ErNoAuditsCompleted
    \/ ErException
    \/ ErReturn

SpecErik == ErInit /\ [][ErNext]_vars

\* C30: when main has returned, no row it inserted is in progress.
C30_NothingLeftInProgress ==
    er_pc = "returned" => \A id \in er_created : ~er_result[id].in_progress
====
